---- MODULE Spec2Model ----
(***************************************************************************)
(* Calibration & Alignment Engine of PPS-CDA (src/core/roi.py,             *)
(* src/core/geometry.py).                                                  *)
(*                                                                         *)
(* Python values are modelled as follows.                                  *)
(*   - None is the record None; every value that may be None is a record,  *)
(*     so that "is None" is a record comparison.                           *)
(*   - An object is a record of its attributes.                            *)
(*   - A list or a tuple is a sequence.                                    *)
(*   - A one-dimensional numpy array is the record [data |-> <<...>>].     *)
(*   - A frame is a single-channel image whose rows are uniform: the       *)
(*     record [w, h, rows] with rows[i] the gray level of row i.           *)
(*   - A call either returns a value or raises: Return(v) / Raise(e).      *)
(*   - uuid.uuid4() yields a fresh token: Uuid(0, n) for the n-th RawROI   *)
(*     of the manager, Uuid(g, k) for the k-th object built by the g-th    *)
(*     call that builds aligned ROIs, strips or profiles.                  *)
(***************************************************************************)
EXTENDS Integers, Sequences, FiniteSets, TLC

VARIABLES
    raw_captured_image,  \* CalibrationManager.raw_captured_image
    raw_rois,            \* CalibrationManager.raw_rois
    aligned_rois,        \* CalibrationManager.aligned_rois
    next_raw,            \* number of RawROI objects constructed so far
    next_gen,            \* number of strip/profile building calls so far
    left_strip,          \* the LEFT strip the tracker holds (or None)
    right_strip,         \* the RIGHT strip the tracker holds (or None)
    call,                \* the last call: [op, args]
    ret,                 \* what the last call returned or raised
    current_idx,         \* CalibrationWizardOrchestrator.current_idx
    captured_frame,      \* CalibrationContext.captured_frame
    calibration_manager, \* CalibrationContext.calibration_manager
    calibration_profile, \* CalibrationContext.calibration_profile
    drawing_state,       \* Step2ROI.drawing_state
    lifecycle,           \* the orchestrator and step calls of the last event
    route,               \* the page the browser shows
    _cap,                \* HardwareManager._cap
    _stop_event,         \* HardwareManager._stop_event
    _latest_frame,       \* HardwareManager._latest_frame
    _capture_thread,     \* HardwareManager._capture_thread
    threads,             \* the capture worker threads started so far
    main                 \* the thread that calls into the HardwareManager

\* the state of the calibration wizard and of the camera stream
wizard_vars == <<current_idx, captured_frame, calibration_manager,
                 calibration_profile, drawing_state, lifecycle, route>>
stream_vars == <<_cap, _stop_event, _latest_frame, _capture_thread, threads, main>>

vars == <<raw_captured_image, raw_rois, aligned_rois, next_raw, next_gen,
          left_strip, right_strip, call, ret, wizard_vars, stream_vars>>

(***************************************************************************)
(* Bounds of the model.                                                    *)
(***************************************************************************)
MaxRawRois == 3      \* RawROI objects constructed in one behaviour
MaxGenerations == 2  \* strip/profile building calls of the manager in one behaviour
MaxConstructions == 1  \* direct VerticalStrip constructions in one behaviour
MaxStreams == 2      \* capture worker threads started in one behaviour

(***************************************************************************)
(* Program constants.                                                      *)
(***************************************************************************)
MIN_RAW_ROI_SIZE == 5
GAUSS_KSIZE == 5

(***************************************************************************)
(* Python values.                                                          *)
(***************************************************************************)
None == [none |-> TRUE]
IsNone(v) == v = None
Uuid(g, k) == [g |-> g, k |-> k]
Return(v) == [raised |-> FALSE, value |-> v]
Raise(e) == [raised |-> TRUE, exc |-> e]

\* the sequence s with every entry computed: a sequence written as a
\* function is otherwise recomputed at each use
Tuple(s) == s \o <<>>

Min2(a, b) == IF a <= b THEN a ELSE b
Max2(a, b) == IF a >= b THEN a ELSE b
Abs(a) == IF a < 0 THEN -a ELSE a

(***************************************************************************)
(* BaseROI: geometry, hit test and crop.                                   *)
(***************************************************************************)
BaseROI(id, x, y, width, height, roi_type) ==
    [id |-> id, roi_type |-> roi_type,
     x |-> x, y |-> y, width |-> width, height |-> height]

end_x(r) == r.x + r.width
end_y(r) == r.y + r.height

contains_point(r, px, py) ==
    (r.x <= px /\ px < end_x(r)) /\ (r.y <= py /\ py < end_y(r))

\* frame[y1:y2, x1:x2] of a frame with uniform rows
Slice(frame, x1, y1, x2, y2) ==
    [w |-> x2 - x1, h |-> y2 - y1,
     rows |-> Tuple([i \in 1..(y2 - y1) |-> frame.rows[y1 + i]])]

\* crop that takes a region without columns for a region
crop_EmptyRegion(r, frame) ==
    IF IsNone(frame) THEN None
    ELSE LET h == frame.h
             w == frame.w
             x1 == Max2(0, Min2(r.x, w))
             y1 == Max2(0, Min2(r.y, h))
             x2 == Max2(0, Min2(end_x(r), w))
             y2 == Max2(0, Min2(end_y(r), h))
         IN IF x2 < x1 \/ y2 <= y1 THEN None
            ELSE Slice(frame, x1, y1, x2, y2)

crop(r, frame) ==
    IF IsNone(frame) THEN None
    ELSE LET h == frame.h
             w == frame.w
             x1 == Max2(0, Min2(r.x, w))
             y1 == Max2(0, Min2(r.y, h))
             x2 == Max2(0, Min2(end_x(r), w))
             y2 == Max2(0, Min2(end_y(r), h))
         IN IF x2 <= x1 \/ y2 <= y1 THEN None
            ELSE Slice(frame, x1, y1, x2, y2)

(***************************************************************************)
(* RawROI and AlignedROI.                                                  *)
(***************************************************************************)
RawROI(id, x, y, w, h) == BaseROI(id, x, y, w, h, "raw")

\* from_points anchored at the first corner
from_points_FirstCorner(id, x1, y1, x2, y2) ==
    RawROI(id, x1, y1, Abs(x2 - x1), Abs(y2 - y1))

from_points(id, x1, y1, x2, y2) ==
    RawROI(id, Min2(x1, x2), Min2(y1, y2), Abs(x2 - x1), Abs(y2 - y1))

AlignedROI(id, x, y, w, h) == BaseROI(id, x, y, w, h, "aligned")

(***************************************************************************)
(* cv2.GaussianBlur(gray, (5, 5), 0) on a frame with uniform rows.  For a  *)
(* 5-tap kernel and sigma 0 the kernel is 1 4 6 4 1 over 16, the border is *)
(* BORDER_REFLECT_101 and an 8-bit result is rounded to nearest.  A row    *)
(* that is uniform stays uniform, so only the vertical pass matters.       *)
(***************************************************************************)
GaussKernel == <<1, 4, 6, 4, 1>>
GaussSum == GaussKernel[1] + GaussKernel[2] + GaussKernel[3] + GaussKernel[4] + GaussKernel[5]

RECURSIVE borderInterpolate(_, _)
borderInterpolate(p, len) ==
    IF len = 1 THEN 0
    ELSE IF p >= 0 /\ p < len THEN p
    ELSE IF p < 0 THEN borderInterpolate(-p, len)
    ELSE borderInterpolate(2 * len - 2 - p, len)

GaussianBlur(img) ==
    LET half == GAUSS_KSIZE \div 2
        tap(i, k) == img.rows[borderInterpolate((i - 1) + (k - 1 - half), img.h) + 1]
        acc(i) == tap(i, 1) * GaussKernel[1] + tap(i, 2) * GaussKernel[2]
                  + tap(i, 3) * GaussKernel[3] + tap(i, 4) * GaussKernel[4]
                  + tap(i, 5) * GaussKernel[5]
    IN [img EXCEPT !.rows =
            Tuple([i \in 1..img.h |-> (2 * acc(i) + GaussSum) \div (2 * GaussSum)])]

\* np.mean(blurred, axis=1): the mean of a uniform row is its gray level
RowMeans(img) == [data |-> img.rows]

(***************************************************************************)
(* VerticalStrip.                                                          *)
(***************************************************************************)
upper(side) ==
    CASE side = "left" -> "LEFT"
      [] side = "right" -> "RIGHT"
      [] OTHER -> side

\* Crop -> Gray -> Blur -> Collapse
extract_signal(strip, frame) ==
    LET c == crop(strip, frame)
    IN IF IsNone(c) THEN None ELSE RowMeans(GaussianBlur(c))

\* returns <<the strip after the call, the boolean returned>>
compute_and_store_reference(strip, frame) ==
    LET signal == extract_signal(strip, frame)
    IN IF IsNone(signal) THEN <<strip, FALSE>>
       ELSE <<[strip EXCEPT !._reference_signal = signal], TRUE>>

\* VerticalStripInit without the check that the AlignedROIs share x and width
VerticalStripInit_Unchecked(id, rois, image_height, side, frame) ==
    IF Len(rois) = 0 THEN Raise("ValueError")
    ELSE LET self == [id |-> id, roi_type |-> "vertical_strip",
                      x |-> rois[1].x, y |-> 0, width |-> rois[1].width,
                      height |-> image_height,
                      aligned_rois |-> rois, side |-> upper(side),
                      _reference_signal |-> None]
         IN IF ~IsNone(frame)
            THEN Return(compute_and_store_reference(self, frame)[1])
            ELSE Raise("ValueError")

\* VerticalStrip(aligned_rois, image_height, side, frame); id is the uuid
\* drawn by BaseROI.__init__
VerticalStripInit(id, rois, image_height, side, frame) ==
    IF Len(rois) = 0 THEN Raise("ValueError")
    ELSE LET x == rois[1].x
             w == rois[1].width
         IN IF \E i \in 1..Len(rois) : rois[i].x # x \/ rois[i].width # w
            THEN Raise("ValueError")
            ELSE LET self == [id |-> id, roi_type |-> "vertical_strip",
                              x |-> x, y |-> 0, width |-> w, height |-> image_height,
                              aligned_rois |-> rois, side |-> upper(side),
                              _reference_signal |-> None]
                 IN IF ~IsNone(frame)
                    THEN Return(compute_and_store_reference(self, frame)[1])
                    ELSE Raise("ValueError")

(***************************************************************************)
(* Sums over sequences of integers, for the correlation.                   *)
(***************************************************************************)
RECURSIVE SumSeq(_)
SumSeq(s) == IF Len(s) = 0 THEN 0 ELSE s[1] + SumSeq(Tail(s))

\* n * (s - mean(s)): the mean-subtracted signal, scaled to stay integral
Centered(s) ==
    LET total == SumSeq(s)
    IN Tuple([i \in 1..Len(s) |-> Len(s) * s[i] - total])

SumSquares(s) == SumSeq(Tuple([i \in 1..Len(s) |-> s[i] * s[i]]))

\* np.correlate with its two arguments exchanged
correlate_full_Swapped(a, v) ==
    Tuple([i \in 1..(Len(a) + Len(v) - 1) |->
        LET k == i - Len(a)
        IN SumSeq(Tuple([n \in 1..Len(a) |->
                     IF n + k >= 1 /\ n + k <= Len(v) THEN v[n + k] * a[n] ELSE 0]))])

\* np.correlate(a, v, mode='full'): entry i (from 1) is the lag
\* k = i - Len(v) and equals the sum over n of a[n + k] * v[n]
correlate_full(a, v) ==
    Tuple([i \in 1..(Len(a) + Len(v) - 1) |->
        LET k == i - Len(v)
        IN SumSeq(Tuple([n \in 1..Len(v) |->
                     IF n + k >= 1 /\ n + k <= Len(a) THEN a[n + k] * v[n] ELSE 0]))])

\* np.argmax: the first index (from 0) of the maximum
argmax(c) ==
    (CHOOSE i \in 1..Len(c) :
        /\ \A j \in 1..Len(c) : c[j] <= c[i]
        /\ \A j \in 1..(i - 1) : c[j] < c[i]) - 1

\* A confidence is sgn * sqrt(sq_num / sq_den).
Confidence(sgn, sq_num, sq_den) == [sgn |-> sgn, sq_num |-> sq_num, sq_den |-> sq_den]
ZeroConfidence == Confidence(0, 0, 1)
Sign(a) == IF a > 0 THEN 1 ELSE IF a < 0 THEN -1 ELSE 0

\* Correlate without the test for a flat signal
Correlate_Unguarded(strip, live) ==
    LET ref == strip._reference_signal.data
        correlation == correlate_full(Centered(live), Centered(ref))
        peak_idx == argmax(correlation)
    IN <<[f \in DOMAIN strip \cup {"_last_offset"} |->
             IF f = "_last_offset" THEN peak_idx - (Len(live) - 1) ELSE strip[f]],
         Return(<<peak_idx - (Len(live) - 1),
                  Confidence(Sign(correlation[peak_idx + 1]),
                             correlation[peak_idx + 1] * correlation[peak_idx + 1] * Len(ref),
                             SumSquares(Centered(ref)) * SumSquares(Centered(live))
                                 * Len(live))>>)>>

\* Correlate with the zero lag taken at index len(live_signal)
Correlate_ShiftFromLength(strip, live) ==
    LET ref == strip._reference_signal.data
        correlation == correlate_full(Centered(live), Centered(ref))
        peak_idx == argmax(correlation)
    IN IF SumSquares(Centered(ref)) = 0 \/ SumSquares(Centered(live)) = 0
       THEN <<strip, Return(<<0, ZeroConfidence>>)>>
       ELSE <<[f \in DOMAIN strip \cup {"_last_offset"} |->
                  IF f = "_last_offset" THEN peak_idx - Len(live) ELSE strip[f]],
              Return(<<peak_idx - Len(live),
                       Confidence(Sign(correlation[peak_idx + 1]),
                                  correlation[peak_idx + 1] * correlation[peak_idx + 1] * Len(ref),
                                  SumSquares(Centered(ref)) * SumSquares(Centered(live))
                                      * Len(live))>>)>>

\* Correlate that takes the live signal as the reference of the next call
Correlate_Adaptive(strip, live) ==
    LET ref == strip._reference_signal.data
        correlation == correlate_full(Centered(live), Centered(ref))
        peak_idx == argmax(correlation)
    IN IF SumSquares(Centered(ref)) = 0 \/ SumSquares(Centered(live)) = 0
       THEN <<strip, Return(<<0, ZeroConfidence>>)>>
       ELSE <<[f \in DOMAIN strip \cup {"_last_offset"} |->
                  IF f = "_last_offset" THEN peak_idx - (Len(live) - 1)
                  ELSE IF f = "_reference_signal" THEN [data |-> live]
                  ELSE strip[f]],
              Return(<<peak_idx - (Len(live) - 1),
                       Confidence(Sign(correlation[peak_idx + 1]),
                                  correlation[peak_idx + 1] * correlation[peak_idx + 1] * Len(ref),
                                  SumSquares(Centered(ref)) * SumSquares(Centered(live))
                                      * Len(live))>>)>>

\* the correlation of a live signal against the reference of the strip:
\* <<the strip after the call, Return(<<offset, confidence>>)>>
Correlate(strip, live) ==
    LET ref == strip._reference_signal.data
        ref_norm == Centered(ref)
        live_norm == Centered(live)
        ref_ss == SumSquares(ref_norm)
        live_ss == SumSquares(live_norm)
        correlation == correlate_full(live_norm, ref_norm)
        peak_idx == argmax(correlation)
        max_val == correlation[peak_idx + 1]
        shift == peak_idx - (Len(live) - 1)
    IN IF ref_ss = 0 \/ live_ss = 0      \* ref_std == 0 or live_std == 0
       THEN <<strip, Return(<<0, ZeroConfidence>>)>>
       ELSE <<[f \in DOMAIN strip \cup {"_last_offset"} |->
                  IF f = "_last_offset" THEN shift ELSE strip[f]],
              Return(<<shift,
                       Confidence(Sign(max_val), max_val * max_val * Len(ref),
                                  ref_ss * live_ss * Len(live))>>)>>

\* the part of measure_vertical_offset that follows the extraction
MeasureLive(strip, live_signal) ==
    IF IsNone(live_signal) THEN <<strip, Return(<<0, ZeroConfidence>>)>>
    ELSE Correlate(strip, live_signal.data)

\* measure_vertical_offset with the live signal examined before the reference
measure_vertical_offset_LateCheck(strip, frame) ==
    IF IsNone(extract_signal(strip, frame))
    THEN <<strip, Return(<<0, ZeroConfidence>>)>>
    ELSE IF IsNone(strip._reference_signal)
    THEN <<strip, Raise("RuntimeError")>>
    ELSE MeasureLive(strip, extract_signal(strip, frame))

\* returns <<the strip after the call, Return(<<offset, confidence>>) or Raise>>
measure_vertical_offset(strip, frame) ==
    IF IsNone(strip._reference_signal)
    THEN <<strip, Raise("RuntimeError")>>
    ELSE MeasureLive(strip, extract_signal(strip, frame))

(***************************************************************************)
(* geometry.py and VerticalStrip.generate_dataclasses.                     *)
(***************************************************************************)
LaneDefinition(side, x, width) == [side |-> side, x |-> x, width |-> width]

AnchorDefinition(id, lane_side, y, height) ==
    [id |-> id, lane_side |-> lane_side, y |-> y, height |-> height]

\* generate_dataclasses with the anchors spanning the strip
generate_dataclasses_StripExtent(strip) ==
    <<LaneDefinition(strip.side, strip.x, strip.width),
      [i \in 1..Len(strip.aligned_rois) |->
          AnchorDefinition(strip.aligned_rois[i].id, strip.side, strip.y, strip.height)]>>

\* returns <<lane_def, anchors>>
generate_dataclasses(strip) ==
    LET lane_side == strip.side
    IN <<LaneDefinition(lane_side, strip.x, strip.width),
         [i \in 1..Len(strip.aligned_rois) |->
             AnchorDefinition(strip.aligned_rois[i].id, lane_side,
                              strip.aligned_rois[i].y, strip.aligned_rois[i].height)]>>

(***************************************************************************)
(* CalibrationProfile.                                                     *)
(***************************************************************************)
EmptyArray == [data |-> <<>>]

\* the fields of the dataclass, with their defaults
ProfileDefaults ==
    [id |-> None, name |-> "", timestamp |-> 0, description |-> "",
     left_lane_signal |-> EmptyArray, right_lane_signal |-> EmptyArray,
     left_lane |-> None, right_lane |-> None,
     left_anchors |-> <<>>, right_anchors |-> <<>>]

\* CalibrationProfile(**kwargs): the generated __init__ accepts the fields
\* of the dataclass as keywords and no other keyword
CalibrationProfile(kwargs) ==
    IF ~(DOMAIN kwargs \subseteq DOMAIN ProfileDefaults)
    THEN Raise("TypeError")
    ELSE LET Field(f) == IF f \in DOMAIN kwargs THEN kwargs[f] ELSE ProfileDefaults[f]
         IN Return([id |-> Field("id"), name |-> Field("name"),
                    timestamp |-> Field("timestamp"),
                    description |-> Field("description"),
                    left_lane_signal |-> Field("left_lane_signal"),
                    right_lane_signal |-> Field("right_lane_signal"),
                    left_lane |-> Field("left_lane"),
                    right_lane |-> Field("right_lane"),
                    left_anchors |-> Field("left_anchors"),
                    right_anchors |-> Field("right_anchors")])

\* CalibrationProfile.create_new(): a blank profile with a fresh id and the
\* current time
create_new(id, now) == CalibrationProfile([id |-> id, timestamp |-> now]).value

\* ndarray.tolist() and np.array(list, dtype=np.float32)
tolist(a) == a.data
array(l) == [data |-> l]

\* the attributes an object has are the fields of its record
HasAttr(obj, attr) == attr \in DOMAIN obj

\* LaneDefinition.to_dict / AnchorDefinition.to_dict
lane_to_dict(lane) == [side |-> lane.side, x |-> lane.x, width |-> lane.width]
anchor_to_dict(a) == [id |-> a.id, lane_side |-> a.lane_side, y |-> a.y, height |-> a.height]

\* CalibrationProfile.to_dict(): the dict literal is evaluated entry by
\* entry, so the first failing entry decides the exception
to_dict(self) ==
    IF IsNone(self.left_lane_signal) \/ IsNone(self.right_lane_signal)
    THEN Raise("AttributeError")    \* None has no tolist
    ELSE IF ~HasAttr(self, "anchors")
    THEN Raise("AttributeError")    \* the profile has no attribute anchors
    ELSE Return([id |-> self.id, name |-> self.name,
                 timestamp |-> self.timestamp, description |-> self.description,
                 left_lane_signal |-> tolist(self.left_lane_signal),
                 right_lane_signal |-> tolist(self.right_lane_signal),
                 left_lane |-> IF ~IsNone(self.left_lane)
                               THEN lane_to_dict(self.left_lane) ELSE None,
                 right_lane |-> IF ~IsNone(self.right_lane)
                                THEN lane_to_dict(self.right_lane) ELSE None,
                 anchors |-> IF Len(self.anchors) = 0 THEN <<>>
                             ELSE [i \in 1..Len(self.anchors) |->
                                      anchor_to_dict(self.anchors[i])]])

\* data.get(key, default)
Get(data, key, default) == IF key \in DOMAIN data THEN data[key] ELSE default

\* LaneDefinition(**d) if d else None
LaneOrNone(d) == IF IsNone(d) THEN None ELSE LaneDefinition(d.side, d.x, d.width)

\* CalibrationProfile.from_dict(data): the arguments are evaluated first,
\* then the constructor is called with them
from_dict(data) ==
    IF "id" \notin DOMAIN data \/ "timestamp" \notin DOMAIN data
    THEN Raise("KeyError")
    ELSE LET anchors == Get(data, "anchors", <<>>)
         IN CalibrationProfile(
                [id |-> data.id, name |-> Get(data, "name", ""),
                 timestamp |-> data.timestamp,
                 description |-> Get(data, "description", ""),
                 left_lane_signal |-> array(Get(data, "left_lane_signal", <<>>)),
                 right_lane_signal |-> array(Get(data, "right_lane_signal", <<>>)),
                 left_lane |-> LaneOrNone(Get(data, "left_lane", None)),
                 right_lane |-> LaneOrNone(Get(data, "right_lane", None)),
                 anchors |-> IF Len(anchors) = 0 THEN <<>>
                             ELSE [i \in 1..Len(anchors) |->
                                      AnchorDefinition(anchors[i].id, anchors[i].lane_side,
                                                       anchors[i].y, anchors[i].height)]])

(***************************************************************************)
(* CalibrationManager.                                                     *)
(***************************************************************************)
\* list.sort(key=lambda r: r.y): a stable sort
RECURSIVE InsertByY(_, _)
InsertByY(sorted, r) ==
    IF Len(sorted) = 0 THEN <<r>>
    ELSE IF sorted[Len(sorted)].y <= r.y THEN Append(sorted, r)
    ELSE Append(InsertByY(SubSeq(sorted, 1, Len(sorted) - 1), r), sorted[Len(sorted)])

RECURSIVE SortByY(_)
SortByY(s) ==
    IF Len(s) = 0 THEN <<>>
    ELSE InsertByY(SortByY(SubSeq(s, 1, Len(s) - 1)), s[Len(s)])

\* split_rois_by_side with a ROI that touches the midpoint from the left
\* counted as crossing it
split_rois_by_side_Strict(image, rois) ==
    LET mid_x == image.w \div 2
        IsLeft(r) == end_x(r) < mid_x
        IsRight(r) == ~(end_x(r) < mid_x) /\ r.x >= mid_x
    IN <<SortByY(SelectSeq(rois, IsLeft)), SortByY(SelectSeq(rois, IsRight))>>

\* returns <<left, right>>
split_rois_by_side(image, rois) ==
    LET image_width == image.w
        mid_x == image_width \div 2
        IsLeft(r) == end_x(r) <= mid_x
        IsRight(r) == ~(end_x(r) <= mid_x) /\ r.x >= mid_x
    IN <<SortByY(SelectSeq(rois, IsLeft)), SortByY(SelectSeq(rois, IsRight))>>

RECURSIVE MaxStart(_)
MaxStart(s) == IF Len(s) = 1 THEN s[1].x ELSE Max2(MaxStart(SubSeq(s, 1, Len(s) - 1)), s[Len(s)].x)

RECURSIVE MinEnd(_)
MinEnd(s) == IF Len(s) = 1 THEN end_x(s[1]) ELSE Min2(MinEnd(SubSeq(s, 1, Len(s) - 1)), end_x(s[Len(s)]))

\* align_side with the bounds of the first ROI instead of the intersection
align_side_FirstBounds(raw_list, g, k0) ==
    IF Len(raw_list) = 0 THEN Raise("IndexError")
    ELSE Return([i \in 1..Len(raw_list) |->
                    AlignedROI(Uuid(g, k0 + i), raw_list[1].x, raw_list[i].y,
                               raw_list[1].width, raw_list[i].height)])

\* align_side with end_x taken as the last column of a ROI
align_side_Exclusive(raw_list, g, k0) ==
    IF Len(raw_list) = 0 THEN Raise("IndexError")
    ELSE Return([i \in 1..Len(raw_list) |->
                    AlignedROI(Uuid(g, k0 + i), MaxStart(raw_list), raw_list[i].y,
                               MinEnd(raw_list) - 1 - MaxStart(raw_list),
                               raw_list[i].height)])

\* align_side(raw_list, side_name); the i-th AlignedROI gets the uuid
\* Uuid(g, k0 + i)
align_side(raw_list, g, k0) ==
    IF Len(raw_list) = 0 THEN Raise("IndexError")      \* raw_list[0]
    ELSE LET current_max_start == MaxStart(raw_list)
             current_min_end == MinEnd(raw_list)
             width == current_min_end - current_max_start
         IN Return([i \in 1..Len(raw_list) |->
                       AlignedROI(Uuid(g, k0 + i), current_max_start, raw_list[i].y,
                                  width, raw_list[i].height)])

\* what follows a call that may raise: the exception propagates
Then(r, F(_)) == IF r.raised THEN r ELSE F(r.value)

\* align_raw_rois(raw_list): Return(<<left_aligned_rois, right_aligned_rois>>);
\* the left side is aligned first
AlignSides(left, right, g) ==
    LET Right(left_aligned_rois) ==
            LET Both(right_aligned_rois) == Return(<<left_aligned_rois, right_aligned_rois>>)
            IN Then(align_side(right, g, Len(left)), Both)
    IN Then(align_side(left, g, 0), Right)

align_raw_rois(image, rois, g) ==
    AlignSides(split_rois_by_side(image, rois)[1], split_rois_by_side(image, rois)[2], g)

\* one side of generate_vertical_strips: the strip is built and its
\* reference is computed once more; a failure of that is only logged
StripOfSide(rois, image_height, side, frame, id) ==
    IF Len(rois) = 0 THEN Return(None)
    ELSE LET Recompute(strip) == Return(compute_and_store_reference(strip, frame)[1])
         IN Then(VerticalStripInit(id, rois, image_height, side, frame), Recompute)

\* the part of generate_vertical_strips that follows the alignment; the
\* left strip is built first
StripsOfAligned(left, right, image_height, frame, g) ==
    LET n == Len(left) + Len(right)
        Right(left_strip_) ==
            LET Both(right_strip_) == Return(<<left_strip_, right_strip_>>)
            IN Then(StripOfSide(right, image_height, "RIGHT", frame, Uuid(g, n + 2)), Both)
    IN Then(StripOfSide(left, image_height, "LEFT", frame, Uuid(g, n + 1)), Right)

\* generate_vertical_strips(frame): Return(<<left_strip, right_strip>>)
generate_vertical_strips(image, rois, frame, g) ==
    IF IsNone(frame) THEN Raise("AttributeError")      \* frame.shape
    ELSE LET Build(aligned) == StripsOfAligned(aligned[1], aligned[2], frame.h, frame, g)
         IN Then(align_raw_rois(image, rois, g), Build)

\* profile.<side>_lane, <side>_lane_signal, <side>_anchors = ... for a strip
\* that is present
AssignLane(profile, strip, side) ==
    IF IsNone(strip) THEN profile
    ELSE IF side = "LEFT"
    THEN [profile EXCEPT !.left_lane = generate_dataclasses(strip)[1],
                         !.left_lane_signal = strip._reference_signal,
                         !.left_anchors = generate_dataclasses(strip)[2]]
    ELSE [profile EXCEPT !.right_lane = generate_dataclasses(strip)[1],
                         !.right_lane_signal = strip._reference_signal,
                         !.right_anchors = generate_dataclasses(strip)[2]]

\* the part of generate_calibration_profile that follows the strips
ProfileOfStrips(left, right, g) ==
    IF IsNone(left) /\ IsNone(right) THEN Return(None)
    ELSE Return(AssignLane(AssignLane(create_new(Uuid(g, 0), g), left, "LEFT"),
                           right, "RIGHT"))

\* generate_calibration_profile(frame): Return(profile) or Return(None)
generate_calibration_profile(image, rois, frame, g) ==
    LET Assemble(strips) == ProfileOfStrips(strips[1], strips[2], g)
    IN Then(generate_vertical_strips(image, rois, frame, g), Assemble)

(***************************************************************************)
(* Inputs: frames, mouse clicks and hit-test points.                       *)
(***************************************************************************)
\* the number of rows of a full frame
FRAME_ROWS == 8

FrameTextured == [w |-> 28, h |-> 8, rows |-> <<0, 0, 4, 4, 0, 0, 0, 0>>]
FrameShifted == [w |-> 28, h |-> 8, rows |-> <<0, 0, 0, 4, 4, 0, 0, 0>>]
FrameFlat == [w |-> 28, h |-> 8, rows |-> <<2, 2, 2, 2, 2, 2, 2, 2>>]
FrameShort == [w |-> 28, h |-> 6, rows |-> <<0, 4, 4, 0, 0, 0>>]
FrameNarrow == [w |-> 14, h |-> 8, rows |-> <<0, 0, 4, 4, 0, 0, 0, 0>>]

\* a frame of FRAME_ROWS rows, dark but for one row r
FrameBump(r) ==
    [w |-> 28, h |-> FRAME_ROWS,
     rows |-> Tuple([i \in 1..FRAME_ROWS |-> IF i = r THEN 3 ELSE 0])]
BumpFrames == {FrameBump(r) : r \in 3..6}
\* the frame FrameBump(3) of a camera that delivers only six rows
FrameShortBump == [w |-> 28, h |-> 6, rows |-> <<0, 0, 3, 0, 0, 0>>]

\* the frames a manager is constructed with
CapturedFrames == {FrameTextured}
\* the frames handed to the VerticalStrip constructor
ConstructionFrames == {FrameTextured, FrameFlat, FrameNarrow, None} \cup BumpFrames
\* the frames handed to measure_vertical_offset
LiveFrames ==
    {FrameTextured, FrameShifted, FrameFlat, FrameShort, FrameNarrow, None}
        \cup BumpFrames \cup {FrameShortBump}

\* corner points <<x1, y1, x2, y2>> of a drawn rectangle; the midpoint of
\* the captured frames is x = 14
Clicks ==
    {<<0, 0, 6, 6>>,      \* left
     <<7, 8, 1, 2>>,      \* left, corners in reverse order
     <<7, 0, 14, 8>>,     \* left, touching the midpoint, disjoint from the first
     <<14, 1, 20, 7>>,    \* right, starting at the midpoint
     <<22, 0, 15, 7>>,    \* right, corners in reverse order
     <<10, 0, 18, 6>>,    \* straddling the midpoint
     <<0, 0, 5, 8>>,      \* too narrow
     <<8, 1, 14, 6>>,     \* too low
     <<3, 3, 3, 3>>}      \* degenerate

Points == {<<3, 3>>, <<16, 3>>, <<27, 7>>}

\* geometries <<x, y, w, h>> of the AlignedROIs handed to the VerticalStrip
\* constructor
AlignedInputs ==
    {<<>>,
     <<<<1, 0, 5, 6>>, <<1, 2, 5, 6>>>>,
     <<<<1, 0, 5, 6>>, <<2, 2, 5, 6>>>>,      \* x differs
     <<<<1, 0, 5, 6>>, <<1, 2, 4, 6>>>>,      \* width differs
     <<<<6, 0, 0, 6>>, <<6, 1, 0, 7>>>>,      \* empty intersection
     <<<<15, 1, 5, 6>>>>}

ImageHeights == {6, 8}
Sides == {"LEFT", "right"}

\* dicts of the persisted shape handed to from_dict
SampleDicts ==
    {[id |-> Uuid(9, 0), name |-> "a", timestamp |-> 9, description |-> "",
      left_lane_signal |-> <<0, 1, 2>>, right_lane_signal |-> <<>>,
      left_lane |-> [side |-> "LEFT", x |-> 1, width |-> 5], right_lane |-> None,
      anchors |-> <<[id |-> Uuid(9, 1), lane_side |-> "LEFT", y |-> 0, height |-> 6]>>],
     [name |-> "b", timestamp |-> 9]}

(***************************************************************************)
(* The state machine: a CalibrationManager, the strips a tracker holds,    *)
(* and the last call with its outcome.                                     *)
(***************************************************************************)
Call(op, args) == [op |-> op, args |-> args]

Init ==
    /\ raw_captured_image \in CapturedFrames
    /\ raw_rois = <<>>
    /\ aligned_rois = <<>>
    /\ next_raw = 0
    /\ next_gen = 0
    /\ left_strip = None
    /\ right_strip = None
    /\ call = Call("CalibrationManager", <<>>)
    /\ ret = Return(None)
    /\ current_idx = 0
    /\ captured_frame = None
    /\ calibration_manager = None
    /\ calibration_profile = None
    /\ drawing_state = [active |-> FALSE, start_x |-> 0, start_y |-> 0]
    /\ lifecycle = <<<<"on_enter", 0>>, <<"render", 0>>>>
    /\ route = "/calibration"
    /\ _cap = None
    /\ _stop_event = FALSE
    /\ _latest_frame = None
    /\ _capture_thread = None
    /\ threads = <<>>
    /\ main = [pc |-> "idle", op |-> "__init__"]

\* add_raw_roi accepting a ROI of exactly the minimum size
add_raw_roi_Inclusive(rois, id, x1, y1, x2, y2) ==
    LET roi == from_points(id, x1, y1, x2, y2)
    IN IF roi.width >= MIN_RAW_ROI_SIZE /\ roi.height >= MIN_RAW_ROI_SIZE
       THEN <<Append(rois, roi), Return(roi)>>
       ELSE <<rois, Return(None)>>

\* add_raw_roi putting the new ROI in front
add_raw_roi_Prepend(rois, id, x1, y1, x2, y2) ==
    LET roi == from_points(id, x1, y1, x2, y2)
    IN IF roi.width > MIN_RAW_ROI_SIZE /\ roi.height > MIN_RAW_ROI_SIZE
       THEN <<<<roi>> \o rois, Return(roi)>>
       ELSE <<rois, Return(None)>>

\* add_raw_roi(x1, y1, x2, y2)
add_raw_roi(rois, id, x1, y1, x2, y2) ==
    LET roi == from_points(id, x1, y1, x2, y2)
    IN IF roi.width > MIN_RAW_ROI_SIZE /\ roi.height > MIN_RAW_ROI_SIZE
       THEN <<Append(rois, roi), Return(roi)>>
       ELSE <<rois, Return(None)>>

AddRawRoi ==
    \E c \in Clicks :
        /\ next_raw < MaxRawRois
        /\ LET r == add_raw_roi(raw_rois, Uuid(0, next_raw + 1), c[1], c[2], c[3], c[4])
           IN /\ raw_rois' = r[1]
              /\ ret' = r[2]
        /\ next_raw' = next_raw + 1
        /\ call' = Call("add_raw_roi", c)
        /\ UNCHANGED <<wizard_vars, stream_vars,
                      raw_captured_image, aligned_rois, next_gen,
                      left_strip, right_strip>>

\* the hit test in insertion order: the index of the first ROI containing
\* the point
LastHit_First(rois, x, y) ==
    LET hits == {i \in 1..Len(rois) : contains_point(rois[i], x, y)}
    IN IF hits = {} THEN 0 ELSE CHOOSE i \in hits : \A j \in hits : i <= j

\* the index of the last ROI containing the point, 0 if there is none
LastHit(rois, x, y) ==
    LET hits == {i \in 1..Len(rois) : contains_point(rois[i], x, y)}
    IN IF hits = {} THEN 0 ELSE CHOOSE i \in hits : \A j \in hits : j <= i

\* list.remove(roi): the ROIs are distinct objects, so the first element
\* equal to roi is roi itself
RemoveAt(s, i) == SubSeq(s, 1, i - 1) \o SubSeq(s, i + 1, Len(s))

remove_raw_roi_from_point(rois, x, y) ==
    LET i == LastHit(rois, x, y)
    IN IF i = 0 THEN <<rois, Return(None)>>
       ELSE <<RemoveAt(rois, i), Return(rois[i].id)>>

RemoveRawRoiFromPoint ==
    \E pt \in Points :
        /\ LET r == remove_raw_roi_from_point(raw_rois, pt[1], pt[2])
           IN /\ raw_rois' = r[1]
              /\ ret' = r[2]
        /\ call' = Call("remove_raw_roi_from_point", pt)
        /\ UNCHANGED <<wizard_vars, stream_vars,
                      raw_captured_image, aligned_rois, next_raw, next_gen,
                      left_strip, right_strip>>

ClearAllRois ==
    /\ raw_rois' = <<>>
    /\ aligned_rois' = <<>>
    /\ call' = Call("clear_all_rois", <<>>)
    /\ ret' = Return(None)
    /\ UNCHANGED <<wizard_vars, stream_vars,
                  raw_captured_image, next_raw, next_gen,
                  left_strip, right_strip>>

\* align_raw_rois(self.raw_rois), called on its own
AlignRawRois ==
    /\ next_gen < MaxGenerations
    /\ next_gen' = next_gen + 1
    /\ call' = Call("align_raw_rois", <<raw_rois>>)
    /\ ret' = align_raw_rois(raw_captured_image, raw_rois, next_gen + 1)
    /\ UNCHANGED <<wizard_vars, stream_vars,
                  raw_captured_image, raw_rois, aligned_rois, next_raw,
                  left_strip, right_strip>>

\* the frames handed to generate_vertical_strips and
\* generate_calibration_profile: the captured frame, a blank frame, or one
\* of another size
GenerationFrames == {raw_captured_image, FrameFlat, FrameNarrow}

\* manager.generate_vertical_strips(frame)
GenerateVerticalStrips ==
    \E frame \in GenerationFrames :
        /\ next_gen < MaxGenerations
        /\ next_gen' = next_gen + 1
        /\ call' = Call("generate_vertical_strips", <<frame>>)
        /\ ret' = generate_vertical_strips(raw_captured_image, raw_rois, frame,
                                           next_gen + 1)
        /\ UNCHANGED <<wizard_vars, stream_vars,
                      raw_captured_image, raw_rois, aligned_rois, next_raw,
                      left_strip, right_strip>>

\* manager.generate_calibration_profile(frame)
GenerateCalibrationProfile ==
    \E frame \in GenerationFrames :
        /\ next_gen < MaxGenerations
        /\ next_gen' = next_gen + 1
        /\ call' = Call("generate_calibration_profile", <<frame>>)
        /\ ret' = generate_calibration_profile(raw_captured_image, raw_rois, frame,
                                               next_gen + 1)
        /\ UNCHANGED <<wizard_vars, stream_vars,
                      raw_captured_image, raw_rois, aligned_rois, next_raw,
                      left_strip, right_strip>>

\* the AlignedROI objects of the geometries geo, with fresh ids
AlignedOf(geo, g) ==
    IF Len(geo) = 0 THEN <<>>
    ELSE [i \in 1..Len(geo) |->
             AlignedROI(Uuid(g, i), geo[i][1], geo[i][2], geo[i][3], geo[i][4])]

\* strip = VerticalStrip(aligned_rois, image_height, side, frame), called
\* directly; the caller keeps the strip under its side
ConstructStrip ==
    \E geo \in AlignedInputs, image_height \in ImageHeights, side \in Sides,
       frame \in ConstructionFrames :
        /\ next_gen < MaxConstructions
        /\ next_gen' = next_gen + 1
        /\ LET rois == AlignedOf(geo, next_gen + 1)
               r == VerticalStripInit(Uuid(next_gen + 1, Len(geo) + 1), rois,
                                      image_height, side, frame)
           IN /\ call' = Call("VerticalStrip", <<rois, image_height, side, frame>>)
              /\ ret' = r
              /\ left_strip' = IF ~r.raised /\ r.value.side = "LEFT"
                               THEN r.value ELSE left_strip
              /\ right_strip' = IF ~r.raised /\ r.value.side = "RIGHT"
                                THEN r.value ELSE right_strip
        /\ UNCHANGED <<wizard_vars, stream_vars,
                      raw_captured_image, raw_rois, aligned_rois, next_raw>>
                      
\* strip.measure_vertical_offset(frame) on a strip the caller holds
MeasureVerticalOffset ==
    \E side \in {"LEFT", "RIGHT"}, frame \in LiveFrames :
        LET strip == IF side = "LEFT" THEN left_strip ELSE right_strip
        IN /\ ~IsNone(strip)
           /\ LET r == measure_vertical_offset(strip, frame)
              IN /\ ret' = r[2]
                 /\ left_strip' = IF side = "LEFT" THEN r[1] ELSE left_strip
                 /\ right_strip' = IF side = "RIGHT" THEN r[1] ELSE right_strip
           /\ call' = Call("measure_vertical_offset", <<side, frame>>)
           /\ UNCHANGED <<wizard_vars, stream_vars,
                         raw_captured_image, raw_rois, aligned_rois, next_raw,
                         next_gen>>

\* the last call returned a profile
ReturnedProfile ==
    /\ call.op = "generate_calibration_profile"
    /\ ~ret.raised
    /\ ~IsNone(ret.value)

\* profile.to_dict() on the profile generate_calibration_profile returned
ToDict ==
    /\ ReturnedProfile
    /\ call' = Call("to_dict", <<ret.value>>)
    /\ ret' = to_dict(ret.value)
    /\ UNCHANGED <<wizard_vars, stream_vars,
                  raw_captured_image, raw_rois, aligned_rois, next_raw, next_gen,
                  left_strip, right_strip>>

\* CalibrationProfile.from_dict(data) on a dict of the persisted shape, or
\* on the dict to_dict returned
FromDict ==
    \E data \in SampleDicts \cup
                 (IF call.op = "to_dict" /\ ~ret.raised THEN {ret.value} ELSE {}) :
        /\ call' = Call("from_dict", <<data>>)
        /\ ret' = from_dict(data)
        /\ UNCHANGED <<wizard_vars, stream_vars,
                      raw_captured_image, raw_rois, aligned_rois, next_raw, next_gen,
                      left_strip, right_strip>>

\* a calibration draft: the operator edits the ROIs, the strips and the
\* profile are generated and the profile is serialized
Next ==
    \/ AddRawRoi
    \/ RemoveRawRoiFromPoint
    \/ ClearAllRois
    \/ AlignRawRois
    \/ GenerateVerticalStrips
    \/ GenerateCalibrationProfile
    \/ ToDict
    \/ FromDict

Spec == Init /\ [][Next]_vars

\* the tracker: strips are constructed and serve offset queries
NextTracker ==
    \/ ConstructStrip
    \/ MeasureVerticalOffset

SpecTracker == Init /\ [][NextTracker]_vars

(***************************************************************************)
(* Vocabulary of the properties.                                           *)
(***************************************************************************)
LeftRois == split_rois_by_side(raw_captured_image, raw_rois)[1]
RightRois == split_rois_by_side(raw_captured_image, raw_rois)[2]

\* the width of the common horizontal intersection of a non-empty side
CommonWidth(side_rois) == MinEnd(side_rois) - MaxStart(side_rois)
Aligns(side_rois) == Len(side_rois) > 0 /\ CommonWidth(side_rois) > 0
NoIntersection(side_rois) == Len(side_rois) > 0 /\ CommonWidth(side_rois) <= 0

\* an array that is present and not empty
HasSignal(a) == ~IsNone(a) /\ Len(a.data) > 0

Generated(op) == call.op = op /\ ~ret.raised

\* the strip the tracker holds for a side
HeldStrip(side) == IF side = "LEFT" THEN left_strip ELSE right_strip

(***************************************************************************)
(* C1: when the raw ROIs all lie on one side of the midpoint and align,    *)
(* generate_vertical_strips returns a strip for that side and none for the *)
(* other without raising, and generate_calibration_profile returns a       *)
(* profile whose lane for that side is populated with the common x and     *)
(* width and whose other lane is absent.                                   *)
(***************************************************************************)
C1_OneSidedRoisGenerate ==
    /\ (call.op = "generate_vertical_strips" /\ Aligns(LeftRois) /\ Len(RightRois) = 0
        /\ Len(raw_rois) = Len(LeftRois))
       => (~ret.raised /\ ~IsNone(ret.value[1]) /\ IsNone(ret.value[2]))
    /\ (call.op = "generate_vertical_strips" /\ Aligns(RightRois) /\ Len(LeftRois) = 0
        /\ Len(raw_rois) = Len(RightRois))
       => (~ret.raised /\ IsNone(ret.value[1]) /\ ~IsNone(ret.value[2]))
    /\ (call.op = "generate_calibration_profile" /\ Aligns(LeftRois) /\ Len(RightRois) = 0
        /\ Len(raw_rois) = Len(LeftRois))
       => (/\ ~ret.raised
           /\ ~IsNone(ret.value)
           /\ ret.value.left_lane
                = LaneDefinition("LEFT", MaxStart(LeftRois), CommonWidth(LeftRois))
           /\ IsNone(ret.value.right_lane))
    /\ (call.op = "generate_calibration_profile" /\ Aligns(RightRois) /\ Len(LeftRois) = 0
        /\ Len(raw_rois) = Len(RightRois))
       => (/\ ~ret.raised
           /\ ~IsNone(ret.value)
           /\ ret.value.right_lane
                = LaneDefinition("RIGHT", MaxStart(RightRois), CommonWidth(RightRois))
           /\ IsNone(ret.value.left_lane))

(***************************************************************************)
(* C2: generate_calibration_profile returns None, rather than raising,     *)
(* when neither side has a ROI: raw_rois is empty or every raw ROI         *)
(* straddles the midpoint.                                                 *)
(***************************************************************************)
C2_NoStripReturnsNone ==
    (call.op = "generate_calibration_profile" /\ Len(LeftRois) = 0 /\ Len(RightRois) = 0)
    => ret = Return(None)

(***************************************************************************)
(* C3: align_raw_rois returns an empty list for a side whose ROIs have no  *)
(* common horizontal intersection, and never emits an AlignedROI of width  *)
(* <= 0.                                                                   *)
(***************************************************************************)
C3_NoIntersectionEmitsNothing ==
    Generated("align_raw_rois")
    => /\ NoIntersection(LeftRois) => Len(ret.value[1]) = 0
       /\ NoIntersection(RightRois) => Len(ret.value[2]) = 0
       /\ \A s \in {1, 2} : \A i \in 1..Len(ret.value[s]) : ret.value[s][i].width > 0

(***************************************************************************)
(* C4: a failure on one side is isolated: when one side has no ROIs or no  *)
(* common intersection and the other side aligns,                          *)
(* generate_calibration_profile on the captured frame returns a profile    *)
(* with the lane, anchors and signal of the succeeding side populated and  *)
(* the lane of the failing side absent.                                    *)
(***************************************************************************)
C4_FailureIsolated ==
    /\ (call.op = "generate_calibration_profile" /\ call.args[1] = raw_captured_image
        /\ Aligns(LeftRois) /\ ~Aligns(RightRois))
       => (/\ ~ret.raised
           /\ ~IsNone(ret.value)
           /\ ~IsNone(ret.value.left_lane)
           /\ Len(ret.value.left_anchors) > 0
           /\ HasSignal(ret.value.left_lane_signal)
           /\ IsNone(ret.value.right_lane))
    /\ (call.op = "generate_calibration_profile" /\ call.args[1] = raw_captured_image
        /\ Aligns(RightRois) /\ ~Aligns(LeftRois))
       => (/\ ~ret.raised
           /\ ~IsNone(ret.value)
           /\ ~IsNone(ret.value.right_lane)
           /\ Len(ret.value.right_anchors) > 0
           /\ HasSignal(ret.value.right_lane_signal)
           /\ IsNone(ret.value.left_lane))

(***************************************************************************)
(* C5: every profile generate_calibration_profile returns has a lane on at *)
(* least one side, and on each populated side a non-empty anchor list and  *)
(* a reference signal that is present and not empty.                       *)
(***************************************************************************)
C5_ProfilePopulated ==
    ReturnedProfile
    => /\ ~IsNone(ret.value.left_lane) \/ ~IsNone(ret.value.right_lane)
       /\ ~IsNone(ret.value.left_lane)
          => (Len(ret.value.left_anchors) > 0 /\ HasSignal(ret.value.left_lane_signal))
       /\ ~IsNone(ret.value.right_lane)
          => (Len(ret.value.right_anchors) > 0 /\ HasSignal(ret.value.right_lane_signal))

(***************************************************************************)
(* C6: in every profile generate_calibration_profile returns, each         *)
(* populated lane has width > 0, each anchor has height > 0, and each      *)
(* anchor's lane_side is the side of a lane populated in that profile.     *)
(***************************************************************************)
AnchorOk(p, a) ==
    /\ a.height > 0
    /\ \/ ~IsNone(p.left_lane) /\ a.lane_side = p.left_lane.side
       \/ ~IsNone(p.right_lane) /\ a.lane_side = p.right_lane.side

C6_ProfileGeometry ==
    ReturnedProfile
    => /\ ~IsNone(ret.value.left_lane) => ret.value.left_lane.width > 0
       /\ ~IsNone(ret.value.right_lane) => ret.value.right_lane.width > 0
       /\ \A i \in 1..Len(ret.value.left_anchors) :
             AnchorOk(ret.value, ret.value.left_anchors[i])
       /\ \A i \in 1..Len(ret.value.right_anchors) :
             AnchorOk(ret.value, ret.value.right_anchors[i])

(***************************************************************************)
(* C7: for every profile p, to_dict succeeds and emits the anchors under   *)
(* the key anchors, and from_dict of that dict succeeds and yields a       *)
(* profile equal to p in every field.                                      *)
(***************************************************************************)
C7_RoundTrip ==
    call.op = "to_dict"
    => /\ ~ret.raised
       /\ "anchors" \in DOMAIN ret.value
       /\ from_dict(ret.value) = Return(call.args[1])

(***************************************************************************)
(* C8: every VerticalStrip whose construction completes holds a reference  *)
(* signal, whether it comes from the constructor or from                   *)
(* generate_vertical_strips.                                               *)
(***************************************************************************)
C8_StripHoldsReference ==
    /\ Generated("VerticalStrip") => ~IsNone(ret.value._reference_signal)
    /\ Generated("generate_vertical_strips")
       => \A s \in {1, 2} :
             ~IsNone(ret.value[s]) => ~IsNone(ret.value[s]._reference_signal)

(***************************************************************************)
(* C9: constructing a VerticalStrip raises, and yields no strip, exactly   *)
(* when aligned_rois is empty, or some AlignedROI differs from the first   *)
(* in x or width, or no frame is supplied; otherwise the strip has y = 0,  *)
(* height = image_height and the x and width of every AlignedROI it        *)
(* contains.                                                               *)
(***************************************************************************)
Inconsistent(rois) ==
    \E i \in 1..Len(rois) : rois[i].x # rois[1].x \/ rois[i].width # rois[1].width

C9_ConstructionContract ==
    [][(call'.op = "VerticalStrip" /\ next_gen' # next_gen)
       => IF Len(call'.args[1]) = 0 \/ Inconsistent(call'.args[1]) \/ IsNone(call'.args[4])
          THEN /\ ret' = Raise("ValueError")
               /\ UNCHANGED <<left_strip, right_strip>>
          ELSE /\ ~ret'.raised
               /\ ret'.value.y = 0
               /\ ret'.value.height = call'.args[2]
               /\ ret'.value.aligned_rois = call'.args[1]
               /\ \A i \in 1..Len(call'.args[1]) :
                     /\ call'.args[1][i].x = ret'.value.x
                     /\ call'.args[1][i].width = ret'.value.width
               /\ ret'.value = IF ret'.value.side = "LEFT"
                               THEN left_strip' ELSE right_strip']_vars

\* the constructor raised because of an AlignedROI that differs from the first
C9_Witness ==
    /\ call.op = "VerticalStrip"
    /\ ret.raised
    /\ Len(call.args[1]) > 1
    /\ Inconsistent(call.args[1])
    /\ ~IsNone(call.args[4])

(***************************************************************************)
(* C10: measure_vertical_offset on a strip without a reference signal      *)
(* raises and returns no (offset, confidence) pair, whatever the frame.    *)
(***************************************************************************)
C10_UncalibratedMeasureRaises ==
    (call.op = "measure_vertical_offset"
     /\ IsNone(HeldStrip(call.args[1])._reference_signal))
    => ret = Raise("RuntimeError")

\* a strip without a reference was queried with a frame it could crop
C10_Witness ==
    /\ call.op = "measure_vertical_offset"
    /\ IsNone(HeldStrip(call.args[1])._reference_signal)
    /\ ~IsNone(call.args[2])
    /\ ret.raised

(***************************************************************************)
(* Vocabulary of the properties of measure_vertical_offset.                *)
(***************************************************************************)
\* the last call was strip.measure_vertical_offset(frame)
Measured == call.op = "measure_vertical_offset"

\* the reference signal of the strip that was queried, and the signal the
\* strip extracts from the frame it was queried with
RefSignal == HeldStrip(call.args[1])._reference_signal
LiveSignal == extract_signal(HeldStrip(call.args[1]), call.args[2])

\* both signals exist
Comparable == Measured /\ ~IsNone(RefSignal) /\ ~IsNone(LiveSignal)

\* a signal all of whose entries are equal: its standard deviation is zero
Flat(signal) ==
    \A i \in 1..Len(signal.data) : signal.data[i] = signal.data[1]

(***************************************************************************)
(* C11: when the reference signal or the live signal is constant,          *)
(* measure_vertical_offset returns exactly (0.0, 0.0); the normalisation,  *)
(* whose divisor would be zero, is not computed.                           *)
(***************************************************************************)
C11_FlatSignalGuard ==
    (Comparable /\ (Flat(RefSignal) \/ Flat(LiveSignal)))
    => /\ ret = Return(<<0, ZeroConfidence>>)
       /\ ret.value[2].sq_den # 0

\* a strip calibrated on a blank frame was queried with a textured frame
C11_Witness ==
    /\ Comparable
    /\ Flat(RefSignal)
    /\ ~Flat(LiveSignal)
    /\ ret = Return(<<0, ZeroConfidence>>)

(***************************************************************************)
(* C12: self-correlation.  For a strip whose reference signal is not       *)
(* constant, measure_vertical_offset on a frame that yields the reference  *)
(* signal again (the calibration frame) returns offset 0 and confidence 1. *)
(***************************************************************************)
C12_SelfCorrelation ==
    (Comparable /\ ~Flat(RefSignal) /\ LiveSignal = RefSignal)
    => /\ ~ret.raised
       /\ ret.value[1] = 0
       /\ ret.value[2].sgn = 1
       /\ ret.value[2].sq_num = ret.value[2].sq_den
       /\ ret.value[2].sq_den > 0

\* a strip calibrated on the textured frame was queried with that frame
C12_Witness ==
    /\ Comparable
    /\ call.args[2] = FrameTextured
    /\ LiveSignal = RefSignal
    /\ ~Flat(RefSignal)
    /\ ret.value[1] = 0

(***************************************************************************)
(* C13: shift sign convention.  When the live signal is the reference      *)
(* signal displaced toward increasing row index by k, that is              *)
(* live[n + k] = reference[n] wherever both indices exist,                 *)
(* measure_vertical_offset returns offset k (negative k: toward decreasing *)
(* index); the offset is the index of the first maximum of the full        *)
(* cross-correlation of the mean-subtracted live signal against the        *)
(* mean-subtracted reference, minus len(live_signal) - 1.                  *)
(***************************************************************************)
\* live[n + k] = ref[n] on the overlap, which is not empty
Displaced(ref, live, k) ==
    /\ \E n \in 1..Len(ref) : n + k \in 1..Len(live)
    /\ \A n \in 1..Len(ref) : n + k \in 1..Len(live) => live[n + k] = ref[n]

PeakOffset(ref, live) ==
    argmax(correlate_full(Centered(live), Centered(ref))) - (Len(live) - 1)

AllLevel(s, idx, b) == \A i \in idx : s[i] = b

ShiftedCopy(ref, live, k) ==
    /\ Len(live) = Len(ref)
    /\ 2 * Abs(k) <= Len(ref)
    /\ Displaced(ref, live, k)
    /\ AllLevel(ref, 1..Abs(k), ref[1])
    /\ AllLevel(ref, (Len(ref) - Abs(k) + 1)..Len(ref), ref[1])
    /\ AllLevel(live, IF k >= 0 THEN 1..k ELSE (Len(live) + k + 1)..Len(live), ref[1])

WithinUnit(confidence) ==
    /\ confidence.sq_den > 0
    /\ confidence.sq_num <= confidence.sq_den

C14_ConfidenceAndOffsetBounded ==
    (Measured /\ ~ret.raised)
    => /\ WithinUnit(ret.value[2])
       /\ Comparable
          => /\ ret.value[1] >= -(Len(LiveSignal.data) - 1)
             /\ ret.value[1] <= Len(RefSignal.data) - 1

(***************************************************************************)
(* Vocabulary of the properties of the alignment.                          *)
(***************************************************************************)
Geometry(r) == <<r.x, r.y, r.width, r.height>>

\* out holds one AlignedROI per ROI of side_rois, in the same order, each on
\* the common intersection of side_rois, with the y and height of its ROI
AlignedTo(side_rois, out) ==
    /\ Len(out) = Len(side_rois)
    /\ \A i \in 1..Len(out) :
          /\ out[i].roi_type = "aligned"
          /\ out[i].y = side_rois[i].y
          /\ out[i].height = side_rois[i].height
          /\ \A j \in 1..Len(side_rois) : side_rois[j].x <= out[i].x
          /\ \E j \in 1..Len(side_rois) : side_rois[j].x = out[i].x
          /\ \A j \in 1..Len(side_rois) : end_x(out[i]) <= end_x(side_rois[j])
          /\ \E j \in 1..Len(side_rois) : end_x(out[i]) = end_x(side_rois[j])

\* the ROIs of a non-empty list share one x and one width
SharesLane(side_rois) ==
    /\ Len(side_rois) > 0
    /\ \A i \in 1..Len(side_rois) :
          side_rois[i].x = side_rois[1].x /\ side_rois[i].width = side_rois[1].width

\* out has the geometry of side_rois, ROI by ROI
SameGeometry(side_rois, out) ==
    /\ Len(out) = Len(side_rois)
    /\ \A i \in 1..Len(out) : Geometry(out[i]) = Geometry(side_rois[i])

(***************************************************************************)
(* C15: for a side with a non-empty ROI list whose common intersection is  *)
(* positive, alignment emits exactly one AlignedROI per input ROI, in the  *)
(* same top-to-bottom order, each with x = the maximum of the inputs' x,   *)
(* width = the minimum of the inputs' end_x minus that x, and the y and    *)
(* height of the corresponding input.                                      *)
(***************************************************************************)
C15_AlignmentShape ==
    /\ Aligns(LeftRois)
       => (~align_side(LeftRois, 0, 0).raised
           /\ AlignedTo(LeftRois, align_side(LeftRois, 0, 0).value))
    /\ Aligns(RightRois)
       => (~align_side(RightRois, 0, 0).raised
           /\ AlignedTo(RightRois, align_side(RightRois, 0, 0).value))
    /\ (Generated("align_raw_rois") /\ Aligns(LeftRois))
       => AlignedTo(LeftRois, ret.value[1])
    /\ (Generated("align_raw_rois") /\ Aligns(RightRois))
       => AlignedTo(RightRois, ret.value[2])

\* two left ROIs with different x were aligned to their intersection
C15_Witness ==
    /\ Generated("align_raw_rois")
    /\ Aligns(LeftRois)
    /\ Len(LeftRois) = 2
    /\ LeftRois[1].x # LeftRois[2].x
    /\ Len(ret.value[1]) = 2
    /\ ret.value[1][1].x = Max2(LeftRois[1].x, LeftRois[2].x)

(***************************************************************************)
(* C16: alignment idempotence.  Aligning ROIs that already share one x and *)
(* one width yields AlignedROIs with that x and width and the same y and   *)
(* height, so aligning the output of an alignment changes nothing.         *)
(***************************************************************************)
Realigned(side_rois) ==
    SharesLane(side_rois)
    => (~align_side(side_rois, 0, 0).raised
        /\ SameGeometry(side_rois, align_side(side_rois, 0, 0).value))

C16_AlignmentIdempotent ==
    /\ Realigned(LeftRois)
    /\ Realigned(RightRois)
    /\ Generated("align_raw_rois")
       => /\ Len(ret.value[1]) > 0 => SharesLane(ret.value[1])
          /\ Len(ret.value[2]) > 0 => SharesLane(ret.value[2])
          /\ Realigned(ret.value[1])
          /\ Realigned(ret.value[2])

\* the output of an alignment that narrowed two ROIs is there to be aligned
\* again
C16_Witness ==
    /\ Generated("align_raw_rois")
    /\ Len(ret.value[1]) = 2
    /\ ret.value[1][1].width > 0
    /\ LeftRois[1].width # ret.value[1][1].width
    /\ SharesLane(ret.value[1])

(***************************************************************************)
(* C17: split_rois_by_side partitions raw_rois by mid = image_width // 2:  *)
(* a ROI with end_x <= mid appears exactly once in left and not in right;  *)
(* a ROI with x >= mid appears exactly once in right and not in left; a    *)
(* ROI with x < mid < end_x appears in neither; each list is ordered by    *)
(* non-decreasing y; raw_rois itself is left unchanged.                    *)
(***************************************************************************)
\* the number of times roi occurs in list
Occurrences(list, roi) == Cardinality({i \in 1..Len(list) : list[i] = roi})

TopToBottom(list) == \A i \in 1..(Len(list) - 1) : list[i].y <= list[i + 1].y

Partitioned(rois, mid, left, right) ==
    /\ \A i \in 1..Len(rois) :
          /\ end_x(rois[i]) <= mid
             => (Occurrences(left, rois[i]) = 1 /\ Occurrences(right, rois[i]) = 0)
          /\ (end_x(rois[i]) > mid /\ rois[i].x >= mid)
             => (Occurrences(right, rois[i]) = 1 /\ Occurrences(left, rois[i]) = 0)
          /\ (rois[i].x < mid /\ mid < end_x(rois[i]))
             => (Occurrences(left, rois[i]) = 0 /\ Occurrences(right, rois[i]) = 0)
    /\ \A i \in 1..Len(left) : \E j \in 1..Len(rois) : rois[j] = left[i]
    /\ \A i \in 1..Len(right) : \E j \in 1..Len(rois) : rois[j] = right[i]
    /\ TopToBottom(left)
    /\ TopToBottom(right)

\* the calls that split the raw ROIs
Splits(op) ==
    op \in {"align_raw_rois", "generate_vertical_strips", "generate_calibration_profile"}

C17_SplitPartitions ==
    [][Splits(call'.op)
       => /\ Partitioned(raw_rois, raw_captured_image.w \div 2,
                         split_rois_by_side(raw_captured_image, raw_rois)[1],
                         split_rois_by_side(raw_captured_image, raw_rois)[2])
          /\ raw_rois' = raw_rois
          /\ raw_captured_image' = raw_captured_image]_vars

\* an alignment split three ROIs: one left that touches the midpoint, one
\* left that was drawn later and lies higher, and one that straddles
C17_Witness ==
    /\ call.op = "align_raw_rois"
    /\ Len(raw_rois) = 3
    /\ Len(LeftRois) = 2
    /\ Len(RightRois) = 0
    /\ \E i \in 1..2 : end_x(LeftRois[i]) = raw_captured_image.w \div 2
    /\ LeftRois[1] = raw_rois[3] \/ LeftRois[1] = raw_rois[2]
    /\ LeftRois[1].y < LeftRois[2].y

(***************************************************************************)
(* Vocabulary of the properties of the ROI list.                           *)
(***************************************************************************)
\* the indices of the stored ROIs that contain the point
Hits(rois, px, py) ==
    {i \in 1..Len(rois) :
        /\ rois[i].x <= px /\ px < rois[i].x + rois[i].width
        /\ rois[i].y <= py /\ py < rois[i].y + rois[i].height}

\* after is before with the i-th entry taken out
Without(before, i, after) ==
    /\ Len(after) = Len(before) - 1
    /\ \A j \in 1..(i - 1) : after[j] = before[j]
    /\ \A j \in i..Len(after) : after[j] = before[j + 1]

(***************************************************************************)
(* C18: remove_raw_roi_from_point(x, y), when at least one stored raw ROI  *)
(* contains the point, removes exactly the most recently added such ROI,   *)
(* returns its id, and leaves every other raw ROI stored in its original   *)
(* relative order.                                                         *)
(***************************************************************************)
C18_RemoveTopmostHit ==
    [][(call'.op = "remove_raw_roi_from_point"
        /\ Hits(raw_rois, call'.args[1], call'.args[2]) # {})
       => \E i \in Hits(raw_rois, call'.args[1], call'.args[2]) :
             /\ \A j \in Hits(raw_rois, call'.args[1], call'.args[2]) : j <= i
             /\ ret' = Return(raw_rois[i].id)
             /\ Without(raw_rois, i, raw_rois')]_vars

\* a point inside two of three stored ROIs was clicked: the later of the two
\* is gone, the earlier and the third remain
C18_Witness ==
    /\ call.op = "remove_raw_roi_from_point"
    /\ ~ret.raised
    /\ ~IsNone(ret.value)
    /\ Len(raw_rois) = 2
    /\ Hits(raw_rois, call.args[1], call.args[2]) # {}
    /\ \E i \in 1..2 : raw_rois[i].id.k > ret.value.k

(***************************************************************************)
(* C19: rejected input is a silent no-op.  add_raw_roi with corner points  *)
(* giving width <= 5 or height <= 5, and remove_raw_roi_from_point at a    *)
(* point no stored ROI contains, return None, raise nothing and leave      *)
(* raw_rois and aligned_rois unchanged.                                    *)
(***************************************************************************)
SilentNoOp ==
    /\ ret' = Return(None)
    /\ raw_rois' = raw_rois
    /\ aligned_rois' = aligned_rois

C19_RejectedInputNoOp ==
    [][/\ (call'.op = "add_raw_roi" /\ next_raw' # next_raw
           /\ (Abs(call'.args[3] - call'.args[1]) <= 5
               \/ Abs(call'.args[4] - call'.args[2]) <= 5))
          => SilentNoOp
       /\ (call'.op = "remove_raw_roi_from_point"
           /\ Hits(raw_rois, call'.args[1], call'.args[2]) = {})
          => SilentNoOp]_vars

\* a rectangle exactly five pixels wide was drawn over a stored ROI
C19_Witness ==
    /\ call.op = "add_raw_roi"
    /\ Abs(call.args[3] - call.args[1]) = 5
    /\ Abs(call.args[4] - call.args[2]) > 5
    /\ ret = Return(None)
    /\ Len(raw_rois) > 0

(***************************************************************************)
(* C20: after any sequence of add_raw_roi, remove_raw_roi_from_point and   *)
(* clear_all_rois, every ROI stored in raw_rois has width > 5 and          *)
(* height > 5, the ids are pairwise distinct, and raw_rois is in insertion *)
(* order of the surviving ROIs; clear_all_rois leaves raw_rois and         *)
(* aligned_rois empty.                                                     *)
(***************************************************************************)
\* Uuid(0, n) is the id of the n-th RawROI constructed
InsertionOrder(rois) ==
    \A i \in 1..Len(rois) : \A j \in 1..Len(rois) :
        i < j => rois[i].id.k < rois[j].id.k

C20_StoredRoisValid ==
    /\ \A i \in 1..Len(raw_rois) :
          /\ raw_rois[i].width > 5
          /\ raw_rois[i].height > 5
          /\ raw_rois[i].roi_type = "raw"
    /\ \A i \in 1..Len(raw_rois) : \A j \in 1..Len(raw_rois) :
          i # j => raw_rois[i].id # raw_rois[j].id
    /\ InsertionOrder(raw_rois)
    /\ call.op = "clear_all_rois" => (Len(raw_rois) = 0 /\ Len(aligned_rois) = 0)

\* two ROIs survive a removal that took the one drawn between them
C20_Witness ==
    /\ call.op = "remove_raw_roi_from_point"
    /\ Len(raw_rois) = 2
    /\ raw_rois[1].id = Uuid(0, 1)
    /\ raw_rois[2].id = Uuid(0, 3)

(***************************************************************************)
(* The geometry of a ROI on its own: RawROI.from_points and BaseROI.crop   *)
(* called directly, on corner points and rectangles that need not lie in   *)
(* the frame.                                                              *)
(***************************************************************************)
\* coordinates of the corner points handed to from_points
CornerCoordinates == {0, 5, 6, 12}

\* rectangles <<x, y, width, height>> handed to the BaseROI constructor
CropXs == {-3, 0, 10, 30}
CropYs == {-2, 0, 5, 9}
CropWidths == {-4, 0, 6, 40}
CropHeights == {-1, 0, 3, 20}
CropFrames == {FrameTextured, FrameShort, FrameNarrow}

\* roi = RawROI.from_points(x1, y1, x2, y2)
FromPoints ==
    \E x1 \in CornerCoordinates, y1 \in CornerCoordinates,
       x2 \in CornerCoordinates, y2 \in CornerCoordinates :
        /\ next_raw < MaxRawRois
        /\ next_raw' = next_raw + 1
        /\ call' = Call("from_points", <<x1, y1, x2, y2>>)
        /\ ret' = Return(from_points(Uuid(0, next_raw + 1), x1, y1, x2, y2))
        /\ UNCHANGED <<wizard_vars, stream_vars,
                      raw_captured_image, raw_rois, aligned_rois, next_gen,
                      left_strip, right_strip>>

\* BaseROI(x, y, width, height, roi_type).crop(frame)
Crop ==
    \E x \in CropXs, y \in CropYs, width \in CropWidths, height \in CropHeights,
       frame \in CropFrames :
        /\ next_raw < MaxRawRois
        /\ next_raw' = next_raw + 1
        /\ call' = Call("crop", <<BaseROI(Uuid(0, next_raw + 1), x, y, width, height, "raw"),
                                  frame>>)
        /\ ret' = Return(crop(BaseROI(Uuid(0, next_raw + 1), x, y, width, height, "raw"),
                              frame))
        /\ UNCHANGED <<wizard_vars, stream_vars,
                      raw_captured_image, raw_rois, aligned_rois, next_gen,
                      left_strip, right_strip>>

NextGeometry == FromPoints \/ Crop

SpecGeometry == Init /\ [][NextGeometry]_vars

(***************************************************************************)
(* C21: RawROI.from_points(x1, y1, x2, y2) returns no ROI when the         *)
(* resulting width or height is <= 5, a degenerate rectangle included; it  *)
(* returns a ROI only when both dimensions exceed 5.                       *)
(***************************************************************************)
C21_FromPointsRejectsSmall ==
    call.op = "from_points"
    => /\ ~ret.raised
       /\ IsNone(ret.value)
          <=> (Abs(call.args[3] - call.args[1]) <= 5
               \/ Abs(call.args[4] - call.args[2]) <= 5)

(***************************************************************************)
(* C22: for all corner points, from_points(x1, y1, x2, y2) and             *)
(* from_points(x2, y2, x1, y1) yield the same x, y, width and height, with *)
(* x = min(x1, x2), y = min(y1, y2), width = |x2 - x1| >= 0 and            *)
(* height = |y2 - y1| >= 0.                                                *)
(***************************************************************************)
\* the smaller and the distance of two coordinates
Lesser(a, b) == IF a < b THEN a ELSE b
Distance(a, b) == IF a < b THEN b - a ELSE a - b

C22_FromPointsSymmetric ==
    call.op = "from_points"
    => /\ ~ret.raised
       /\ Geometry(ret.value)
            = <<Lesser(call.args[1], call.args[3]), Lesser(call.args[2], call.args[4]),
                Distance(call.args[1], call.args[3]), Distance(call.args[2], call.args[4])>>
       /\ ret.value.width >= 0
       /\ ret.value.height >= 0
       /\ Geometry(from_points(ret.value.id, call.args[3], call.args[4],
                               call.args[1], call.args[2]))
            = Geometry(ret.value)

\* the second corner lies left of and below the first
C22_Witness ==
    /\ call.op = "from_points"
    /\ call.args[3] < call.args[1]
    /\ call.args[4] > call.args[2]
    /\ ret.value.x = call.args[3]
    /\ ret.value.y = call.args[2]
    /\ ret.value.width > 0

(***************************************************************************)
(* C23: for every ROI, with negative or out-of-range coordinates and sizes *)
(* too, and every frame of size (W, H), crop never raises and reads no     *)
(* pixel outside [0, W) x [0, H); it returns None exactly when the         *)
(* rectangle clamped to the frame has x2 <= x1 or y2 <= y1, and otherwise  *)
(* the region of size (x2 - x1) x (y2 - y1).                               *)
(***************************************************************************)
\* v brought into 0..hi
Clamped(v, hi) == IF v < 0 THEN 0 ELSE IF v > hi THEN hi ELSE v

\* the region is the rows y1 .. y2 - 1 and the columns x1 .. x2 - 1 of the
\* frame, all of which exist
RegionOf(region, frame, x1, y1, x2, y2) ==
    /\ 0 <= x1 /\ x1 < x2 /\ x2 <= frame.w
    /\ 0 <= y1 /\ y1 < y2 /\ y2 <= frame.h
    /\ region.w = x2 - x1
    /\ region.h = y2 - y1
    /\ Len(region.rows) = y2 - y1
    /\ \A i \in 1..(y2 - y1) : region.rows[i] = frame.rows[y1 + i]

CropContract(roi, frame, result) ==
    IF \/ Clamped(roi.x + roi.width, frame.w) <= Clamped(roi.x, frame.w)
       \/ Clamped(roi.y + roi.height, frame.h) <= Clamped(roi.y, frame.h)
    THEN result = Return(None)
    ELSE /\ ~result.raised
         /\ RegionOf(result.value, frame,
                     Clamped(roi.x, frame.w), Clamped(roi.y, frame.h),
                     Clamped(roi.x + roi.width, frame.w),
                     Clamped(roi.y + roi.height, frame.h))

C23_CropClamped ==
    call.op = "crop" => CropContract(call.args[1], call.args[2], ret)

\* a rectangle that starts left of and above the frame and ends beyond it
\* was cropped to the whole frame
C23_Witness ==
    /\ call.op = "crop"
    /\ call.args[1].x < 0
    /\ call.args[1].y < 0
    /\ call.args[1].x + call.args[1].width > call.args[2].w
    /\ call.args[1].y + call.args[1].height > call.args[2].h
    /\ ~IsNone(ret.value)
    /\ ret.value.h = call.args[2].h

(***************************************************************************)
(* C24: in a profile returned by generate_calibration_profile, each        *)
(* populated side's lane has the strip's side, x and width; its anchor     *)
(* list has exactly one AnchorDefinition per AlignedROI of that strip, in  *)
(* the same order, with the AlignedROI's id, y and height and lane_side    *)
(* equal to the strip's side; and its signal equals the strip's reference  *)
(* signal.                                                                 *)
(***************************************************************************)
\* the lane, anchors and signal of one side are copied from the strip
CopiedFrom(strip, lane, anchors, signal) ==
    ~IsNone(lane)
    => /\ ~IsNone(strip)
       /\ lane.side = strip.side
       /\ lane.x = strip.x
       /\ lane.width = strip.width
       /\ Len(anchors) = Len(strip.aligned_rois)
       /\ \A i \in 1..Len(strip.aligned_rois) :
             /\ anchors[i].id = strip.aligned_rois[i].id
             /\ anchors[i].y = strip.aligned_rois[i].y
             /\ anchors[i].height = strip.aligned_rois[i].height
             /\ anchors[i].lane_side = strip.side
       /\ signal = strip._reference_signal

\* strips is the pair generate_vertical_strips built for the profile
ProfileCopies(profile, strips) ==
    /\ CopiedFrom(strips[1], profile.left_lane, profile.left_anchors,
                  profile.left_lane_signal)
    /\ CopiedFrom(strips[2], profile.right_lane, profile.right_anchors,
                  profile.right_lane_signal)

C24_ProfileCopiesStrips ==
    ReturnedProfile
    => ProfileCopies(ret.value,
                     generate_vertical_strips(raw_captured_image, raw_rois,
                                              call.args[1], next_gen).value)

\* a profile with two anchors at different rows on one side
C24_Witness ==
    /\ ReturnedProfile
    /\ ~IsNone(ret.value.left_lane)
    /\ ~IsNone(ret.value.right_lane)
    /\ \/ /\ Len(ret.value.left_anchors) = 2
          /\ ret.value.left_anchors[1].y < ret.value.left_anchors[2].y
          /\ HasSignal(ret.value.left_lane_signal)
       \/ /\ Len(ret.value.right_anchors) = 2
          /\ ret.value.right_anchors[1].y < ret.value.right_anchors[2].y
          /\ HasSignal(ret.value.right_lane_signal)

(***************************************************************************)
(* C25: measure_vertical_offset does not mutate the frame it is given,     *)
(* retains no reference to it, and leaves the strip's reference signal,    *)
(* geometry and aligned_rois unchanged; hence any number of repeated calls *)
(* with the same frame return the same (offset, confidence) pair and the   *)
(* strip's stored state does not grow.                                     *)
(***************************************************************************)
\* strip_ is the strip after the call that returned result on frame
MeasureKeeps(strip, strip_, frame, result) ==
    /\ strip_._reference_signal = strip._reference_signal
    /\ Geometry(strip_) = Geometry(strip)
    /\ strip_.aligned_rois = strip.aligned_rois
    /\ strip_.id = strip.id
    /\ strip_.side = strip.side
    /\ DOMAIN strip_ \subseteq DOMAIN strip \cup {"_last_offset"}
    /\ "_last_offset" \in DOMAIN strip_ \ DOMAIN strip
       => strip_._last_offset = result.value[1]
    /\ measure_vertical_offset(strip_, frame) = <<strip_, result>>

C25_MeasureKeepsStrip ==
    [][MeasureVerticalOffset
       => /\ call'.args[1] = "LEFT"
             => (MeasureKeeps(left_strip, left_strip', call'.args[2], ret')
                 /\ right_strip' = right_strip)
          /\ call'.args[1] = "RIGHT"
             => (MeasureKeeps(right_strip, right_strip', call'.args[2], ret')
                 /\ left_strip' = left_strip)]_vars

\* a measurement that found a displacement and recorded it in the strip
C25_Witness ==
    /\ Measured
    /\ ~ret.raised
    /\ ret.value[1] # 0
    /\ "_last_offset" \in DOMAIN HeldStrip(call.args[1])
    /\ HeldStrip(call.args[1])._last_offset = ret.value[1]

(***************************************************************************)
(* The calibration wizard: CalibrationContext, the orchestrator and the    *)
(* three steps.  A wizard w is the record of the wizard's variables; a     *)
(* handler maps the wizard before the event to the wizard after it.  The   *)
(* frame the HardwareManager hands to on_capture is an input.              *)
(***************************************************************************)
steps == <<"Step1Capture", "Step2ROI", "Step3Profile">>

\* the wizard at the start of an event
Wizard ==
    [current_idx |-> current_idx, captured_frame |-> captured_frame,
     calibration_manager |-> calibration_manager,
     calibration_profile |-> calibration_profile,
     drawing_state |-> drawing_state, lifecycle |-> <<>>, route |-> route]

\* the wizard after the event is w
Becomes(w) ==
    /\ current_idx' = w.current_idx
    /\ captured_frame' = w.captured_frame
    /\ calibration_manager' = w.calibration_manager
    /\ calibration_profile' = w.calibration_profile
    /\ drawing_state' = w.drawing_state
    /\ lifecycle' = w.lifecycle
    /\ route' = w.route

Logged(w, what) == [w EXCEPT !.lifecycle = Append(@, <<what, w.current_idx>>)]

\* set_captured_frame that keeps what was derived from the earlier frame
set_captured_frame_KeepDownstream(w, frame) ==
    [w EXCEPT !.captured_frame = frame]

\* CalibrationContext.set_captured_frame(frame)
set_captured_frame(w, frame) ==
    [w EXCEPT !.captured_frame = frame,
              !.calibration_manager = None,
              !.calibration_profile = None]

\* CalibrationContext.reset()
reset(w) ==
    [w EXCEPT !.captured_frame = None,
              !.calibration_manager = None,
              !.calibration_profile = None]

\* CalibrationManager(raw_captured_image)
CalibrationManager(image) ==
    [raw_captured_image |-> image, raw_rois |-> <<>>, aligned_rois |-> <<>>]

\* on_enter that leaves the making of the manager to a later event
on_enter_Deferred(w) ==
    IF w.current_idx = 1 /\ ~IsNone(w.captured_frame) /\ ~IsNone(w.calibration_manager)
    THEN [Logged(w, "on_enter") EXCEPT
              !.calibration_manager.raw_captured_image = w.captured_frame]
    ELSE Logged(w, "on_enter")

\* step.on_enter() of the current step; only Step2ROI does anything
on_enter(w) ==
    IF w.current_idx # 1 \/ IsNone(w.captured_frame) THEN Logged(w, "on_enter")
    ELSE IF IsNone(w.calibration_manager)
    THEN [Logged(w, "on_enter") EXCEPT
              !.calibration_manager = CalibrationManager(w.captured_frame)]
    ELSE [Logged(w, "on_enter") EXCEPT
              !.calibration_manager.raw_captured_image = w.captured_frame]

\* step.on_leave() of the current step; Step1Capture stops the stream,
\* which the wizard does not hold
on_leave(w) == Logged(w, "on_leave")

\* _finish(): ui.navigate.to('/')
_finish(w) == [w EXCEPT !.route = "/"]

RECURSIVE render(_)
RECURSIVE _load_current_step(_)
RECURSIVE _handle_back(_)

\* step.render(container, on_next, on_back) of the current step: Step2ROI
\* and Step3Profile call on_back() when what they show is missing
render(w) ==
    IF \/ w.current_idx = 1 /\ IsNone(w.captured_frame)
       \/ w.current_idx = 2 /\ (IsNone(w.calibration_profile) \/ IsNone(w.captured_frame))
    THEN _handle_back(Logged(w, "render"))
    ELSE Logged(w, "render")

_load_current_step(w) ==
    IF ~(0 <= w.current_idx /\ w.current_idx < Len(steps)) THEN w
    ELSE render(on_enter(w))

_handle_back(w) ==
    IF w.current_idx > 0
    THEN _load_current_step([on_leave(Logged(w, "_handle_back")) EXCEPT
                                 !.current_idx = w.current_idx - 1])
    ELSE _finish(on_leave(Logged(w, "_handle_back")))     \* ui.navigate.to('/')

\* _handle_next that does not tell the current step that it is left
_handle_next_Silent(w) ==
    IF w.current_idx < Len(steps) - 1
    THEN _load_current_step([Logged(w, "_handle_next") EXCEPT
                                 !.current_idx = w.current_idx + 1])
    ELSE _finish(Logged(w, "_handle_next"))

_handle_next(w) ==
    IF w.current_idx < Len(steps) - 1
    THEN _load_current_step([on_leave(Logged(w, "_handle_next")) EXCEPT
                                 !.current_idx = w.current_idx + 1])
    ELSE _finish(on_leave(Logged(w, "_handle_next")))

\* CalibrationWizardOrchestrator.start() on the objects content() has made
start(w) ==
    _load_current_step([reset(w) EXCEPT
                            !.current_idx = 0,
                            !.drawing_state = [active |-> FALSE, start_x |-> 0, start_y |-> 0],
                            !.route = "/calibration"])

\* Step1Capture: on_capture(), frame being global_hardware_manager.get_latest_frame()
on_capture(w, frame) ==
    IF ~IsNone(frame) THEN _handle_next(set_captured_frame(w, frame)) ELSE w

\* Step2ROI: on_mouse(e) for a mousedown e, id being the uuid of the
\* RawROI that add_raw_roi constructs; e is None when image_x or image_y is
on_mouse(w, e, id) ==
    IF IsNone(e) \/ IsNone(w.calibration_manager) THEN w
    ELSE IF w.drawing_state.active
    THEN [w EXCEPT !.calibration_manager.raw_rois =
                       add_raw_roi(@, id, w.drawing_state.start_x,
                                   w.drawing_state.start_y, e.image_x, e.image_y)[1],
                   !.drawing_state.active = FALSE]
    ELSE IF ~IsNone(remove_raw_roi_from_point(w.calibration_manager.raw_rois,
                                              e.image_x, e.image_y)[2].value)
    THEN [w EXCEPT !.calibration_manager.raw_rois =
                       remove_raw_roi_from_point(@, e.image_x, e.image_y)[1]]
    ELSE [w EXCEPT !.drawing_state =
                       [active |-> TRUE, start_x |-> e.image_x, start_y |-> e.image_y]]

\* Step2ROI: handle_key(e)
handle_key(w, key) ==
    IF key = "Escape" /\ w.drawing_state.active
    THEN [w EXCEPT !.drawing_state.active = FALSE]
    ELSE w

\* Step2ROI: _clear_all_rois()
_clear_all_rois(w) ==
    IF IsNone(w.calibration_manager) THEN w
    ELSE [w EXCEPT !.calibration_manager.raw_rois = <<>>,
                   !.calibration_manager.aligned_rois = <<>>]

\* what generate_calibration_profile(frame) of the wizard's manager gives
Generation(w, g) ==
    generate_calibration_profile(w.calibration_manager.raw_captured_image,
                                 w.calibration_manager.raw_rois, w.captured_frame, g)

\* Step2ROI: on_finish_click(); on_next() is inside the try
Step2ROI_on_finish_click(w, g) ==
    IF IsNone(w.calibration_manager) \/ Len(w.calibration_manager.raw_rois) < 1 THEN w
    ELSE IF Generation(w, g).raised THEN w
    ELSE _handle_next([w EXCEPT !.calibration_profile = Generation(w, g).value])

\* Step3Profile: on_finish_click(), name being the bound value of the input
Step3Profile_on_finish_click(w, name) ==
    IF name = "" THEN [w EXCEPT !.calibration_profile.name = name]
    ELSE _handle_next([w EXCEPT !.calibration_profile.name = name])

(***************************************************************************)
(* The events of the wizard.                                               *)
(***************************************************************************)
WizardFrames == {FrameTextured, FrameShifted}
MousePoints == {<<0, 0>>, <<6, 6>>, <<16, 1>>, <<26, 7>>}
MouseEvents == {[image_x |-> p[1], image_y |-> p[2]] : p \in MousePoints} \cup {None}
Keys == {"Escape", "Enter"}
ProfileNames == {"", "rig"}

\* the page is opened again after the wizard has left it
Start ==
    /\ route = "/"
    /\ Becomes(start(Wizard))
    /\ call' = Call("start", <<>>)
    /\ ret' = Return(None)
    /\ UNCHANGED <<stream_vars, raw_captured_image, raw_rois, aligned_rois,
                   next_raw, next_gen, left_strip, right_strip>>

OnCapture ==
    \E frame \in WizardFrames \cup {None} :
        /\ route = "/calibration"
        /\ current_idx = 0
        /\ Becomes(on_capture(Wizard, frame))
        /\ call' = Call("on_capture", <<frame>>)
        /\ ret' = Return(None)
        /\ UNCHANGED <<stream_vars, raw_captured_image, raw_rois, aligned_rois,
                       next_raw, next_gen, left_strip, right_strip>>

OnMouse ==
    \E e \in MouseEvents :
        /\ route = "/calibration"
        /\ current_idx = 1
        /\ (~IsNone(e) /\ drawing_state.active) => next_raw < MaxRawRois
        /\ Becomes(on_mouse(Wizard, e, Uuid(0, next_raw + 1)))
        /\ next_raw' = IF ~IsNone(e) /\ drawing_state.active
                       THEN next_raw + 1 ELSE next_raw
        /\ call' = Call("on_mouse", <<e>>)
        /\ ret' = Return(None)
        /\ UNCHANGED <<stream_vars, raw_captured_image, raw_rois, aligned_rois,
                       next_gen, left_strip, right_strip>>

HandleKey ==
    \E key \in Keys :
        /\ route = "/calibration"
        /\ current_idx = 1
        /\ Becomes(handle_key(Wizard, key))
        /\ call' = Call("handle_key", <<key>>)
        /\ ret' = Return(None)
        /\ UNCHANGED <<stream_vars, raw_captured_image, raw_rois, aligned_rois,
                       next_raw, next_gen, left_strip, right_strip>>

ClearAllRoisTool ==
    /\ route = "/calibration"
    /\ current_idx = 1
    /\ Becomes(_clear_all_rois(Wizard))
    /\ call' = Call("_clear_all_rois", <<>>)
    /\ ret' = Return(None)
    /\ UNCHANGED <<stream_vars, raw_captured_image, raw_rois, aligned_rois,
                   next_raw, next_gen, left_strip, right_strip>>

OnFinishClick ==
    /\ route = "/calibration"
    /\ current_idx = 1
    /\ next_gen < MaxGenerations
    /\ Becomes(Step2ROI_on_finish_click(Wizard, next_gen + 1))
    /\ next_gen' = IF Len(calibration_manager.raw_rois) < 1
                   THEN next_gen ELSE next_gen + 1
    /\ call' = Call("on_finish_click", <<1>>)
    /\ ret' = Return(None)
    /\ UNCHANGED <<stream_vars, raw_captured_image, raw_rois, aligned_rois,
                   next_raw, left_strip, right_strip>>

\* the back tool of the navbar, the back button of Step3Profile, or on_back
\* of the first step
HandleBack ==
    /\ route = "/calibration"
    /\ Becomes(_handle_back(Wizard))
    /\ call' = Call("_handle_back", <<>>)
    /\ ret' = Return(None)
    /\ UNCHANGED <<stream_vars, raw_captured_image, raw_rois, aligned_rois,
                   next_raw, next_gen, left_strip, right_strip>>

ProfileFinish ==
    \E name \in ProfileNames :
        /\ route = "/calibration"
        /\ current_idx = 2
        /\ Becomes(Step3Profile_on_finish_click(Wizard, name))
        /\ call' = Call("on_finish_click", <<2, name>>)
        /\ ret' = Return(None)
        /\ UNCHANGED <<stream_vars, raw_captured_image, raw_rois, aligned_rois,
                       next_raw, next_gen, left_strip, right_strip>>

NextWizard ==
    \/ Start
    \/ OnCapture
    \/ OnMouse
    \/ HandleKey
    \/ ClearAllRoisTool
    \/ OnFinishClick
    \/ HandleBack
    \/ ProfileFinish

SpecWizard == Init /\ [][NextWizard]_vars

(***************************************************************************)
(* C26: CalibrationContext.set_captured_frame(f) sets captured_frame to f  *)
(* and resets calibration_manager and calibration_profile to absent;       *)
(* consequently, in every reachable wizard state a calibration_manager     *)
(* that is present holds the current captured_frame as its                 *)
(* raw_captured_image, and ROIs drawn on an earlier capture never survive  *)
(* a retake.                                                               *)
(***************************************************************************)
\* the last event was a capture that got a frame
Captured(c) == c.op = "on_capture" /\ ~IsNone(c.args[1])

C26_RetakeResetsDownstream ==
    [][/\ ~IsNone(calibration_manager')
          => calibration_manager'.raw_captured_image = captured_frame'
       /\ Captured(call')
          => /\ set_captured_frame(Wizard, call'.args[1]).captured_frame = call'.args[1]
             /\ IsNone(set_captured_frame(Wizard, call'.args[1]).calibration_manager)
             /\ IsNone(set_captured_frame(Wizard, call'.args[1]).calibration_profile)
             /\ captured_frame' = call'.args[1]
             /\ IsNone(calibration_profile')
             /\ ~IsNone(calibration_manager')
             /\ calibration_manager'.raw_rois = <<>>
             /\ calibration_manager'.aligned_rois = <<>>]_vars

\* a retake with another frame, after a profile was generated from ROIs
\* drawn on the earlier capture
C26_Witness ==
    /\ Captured(call)
    /\ next_gen >= 1
    /\ next_raw >= 2
    /\ captured_frame = FrameShifted
    /\ calibration_manager.raw_captured_image = FrameShifted
    /\ calibration_manager.raw_rois = <<>>

(***************************************************************************)
(* C27: in CalibrationWizardOrchestrator, after start() and any sequence   *)
(* of next/back events, 0 <= current_idx < len(steps); each next or back   *)
(* first calls on_leave of the current step; next moves forward by exactly *)
(* one step or, on the last step, finishes without changing current_idx;   *)
(* back moves backward by exactly one step or, on the first step, exits    *)
(* without changing current_idx.                                           *)
(***************************************************************************)
\* the calls of the event begin with the handler named and on_leave of the
\* step at index idx
Leaves(calls, handler, idx) ==
    /\ Len(calls) >= 2
    /\ calls[1] = <<handler, idx>>
    /\ calls[2] = <<"on_leave", idx>>

\* the event went through _handle_next or _handle_back
Navigated(calls, handler) == \E i \in 1..Len(calls) : calls[i][1] = handler

C27_Navigation ==
    [][/\ 0 <= current_idx' /\ current_idx' < Len(steps)
       /\ Navigated(lifecycle', "_handle_next")
          => /\ Leaves(lifecycle', "_handle_next", current_idx)
             /\ IF current_idx = Len(steps) - 1
                THEN current_idx' = current_idx /\ route' = "/"
                ELSE current_idx' = current_idx + 1 /\ route' = route
       /\ Navigated(lifecycle', "_handle_back")
          => /\ Leaves(lifecycle', "_handle_back", current_idx)
             /\ IF current_idx = 0
                THEN current_idx' = current_idx /\ route' = "/"
                ELSE current_idx' = current_idx - 1 /\ route' = route]_vars

\* back on the profile step: Step3Profile was left and Step2ROI entered
C27_Witness ==
    /\ call.op = "_handle_back"
    /\ current_idx = 1
    /\ lifecycle = <<<<"_handle_back", 2>>, <<"on_leave", 2>>,
                     <<"on_enter", 1>>, <<"render", 1>>>>

(***************************************************************************)
(* C28: whenever a wizard event handler has returned with the wizard on    *)
(* the ROI step (index 1), context.captured_frame and                      *)
(* context.calibration_manager are present; whenever it has returned on    *)
(* the profile step (index 2), context.calibration_profile is present; a   *)
(* finish click on the ROI step with zero ROIs, with a generation          *)
(* exception, or with an absent generated profile never leaves the wizard  *)
(* on the profile step.                                                    *)
(***************************************************************************)
\* the finish click on the wizard w cannot show a profile
FinishFails(w, g) ==
    \/ Len(w.calibration_manager.raw_rois) = 0
    \/ Generation(w, g).raised
    \/ IsNone(Generation(w, g).value)

C28_StepsHaveTheirData ==
    [][/\ current_idx' = 1
          => ~IsNone(captured_frame') /\ ~IsNone(calibration_manager')
       /\ current_idx' = 2 => ~IsNone(calibration_profile')
       /\ (call'.op = "on_finish_click" /\ current_idx = 1
           /\ FinishFails(Wizard, next_gen + 1))
          => current_idx' = 1]_vars

\* a finish click with ROIs from which no profile could be generated: the
\* wizard is still on the ROI step
C28_Witness ==
    /\ call.op = "on_finish_click"
    /\ current_idx = 1
    /\ Len(calibration_manager.raw_rois) >= 1
    /\ IsNone(calibration_profile)

(***************************************************************************)
(* C30: in the ROI step, each mousedown does exactly one of: complete a    *)
(* rectangle from the recorded start point (when drawing is active),       *)
(* delete the topmost ROI under the click (drawing inactive, hit), or      *)
(* record the click as start point and activate drawing (drawing inactive, *)
(* miss); Escape only deactivates drawing; raw_rois changes by at most one *)
(* ROI per click; and the drawing flag is inactive every time the step is  *)
(* entered, so the first click after entering never completes a rectangle  *)
(* from a start point recorded in an earlier visit.                        *)
(***************************************************************************)
\* after is before, or before with one ROI spanning the two points appended
Completed(before, after, x1, y1, x2, y2) ==
    \/ after = before
    \/ /\ Len(after) = Len(before) + 1
       /\ SubSeq(after, 1, Len(before)) = before
       /\ Geometry(after[Len(after)])
            = <<Lesser(x1, x2), Lesser(y1, y2), Distance(x1, x2), Distance(y1, y2)>>

\* what one mousedown e does to the ROIs and to the drawing state
Mousedown(rois, drawing, e, rois_, drawing_) ==
    IF drawing.active
    THEN /\ Completed(rois, rois_, drawing.start_x, drawing.start_y, e.image_x, e.image_y)
         /\ ~drawing_.active
    ELSE IF Hits(rois, e.image_x, e.image_y) # {}
    THEN /\ \E i \in Hits(rois, e.image_x, e.image_y) :
               /\ \A j \in Hits(rois, e.image_x, e.image_y) : j <= i
               /\ Without(rois, i, rois_)
         /\ drawing_ = drawing
    ELSE /\ rois_ = rois
         /\ drawing_ = [active |-> TRUE, start_x |-> e.image_x, start_y |-> e.image_y]

\* the clicks and keys of the ROI step
C30_Editing ==
    /\ (call'.op = "on_mouse" /\ ~IsNone(call'.args[1]))
       => /\ Mousedown(calibration_manager.raw_rois, drawing_state, call'.args[1],
                       calibration_manager'.raw_rois, drawing_state')
          /\ Len(calibration_manager'.raw_rois) - Len(calibration_manager.raw_rois)
                \in {-1, 0, 1}
    /\ call'.op = "handle_key"
       => /\ calibration_manager' = calibration_manager
          /\ drawing_state' = IF call'.args[1] = "Escape"
                              THEN [drawing_state EXCEPT !.active = FALSE]
                              ELSE drawing_state

\* the ROI step is entered
Entered == current_idx # 1 /\ current_idx' = 1

C30_DrawingPerVisit ==
    [][C30_Editing /\ (Entered => ~drawing_state'.active)]_vars

(***************************************************************************)
(* The camera stream: HardwareManager with its capture worker threads.     *)
(* The thread main calls start_video_stream and stop_video_stream, one     *)
(* statement at a time; every worker runs _capture_worker, one statement   *)
(* at a time.  pc names the line of hardware_manager.py a thread is at.    *)
(***************************************************************************)
\* the thread has not left _capture_worker
is_alive(t) == t.pc \notin {"exited", "AttributeError"}

\* stop_video_stream() or start_video_stream(index) is called
CallHardware ==
    \E op \in {"stop_video_stream", "start_video_stream"} :
        /\ main.pc = "idle"
        /\ op = "start_video_stream" => Len(threads) < MaxStreams
        /\ main' = [pc |-> "128", op |-> op]
        /\ UNCHANGED <<_cap, _stop_event, _latest_frame, _capture_thread, threads,
                       call, ret>>

\* if self._capture_thread and self._capture_thread.is_alive():
Stop128 ==
    /\ main.pc = "128"
    /\ main' = [main EXCEPT !.pc = IF ~IsNone(_capture_thread)
                                      /\ is_alive(threads[_capture_thread.ident])
                                   THEN "129" ELSE "132"]
    /\ UNCHANGED <<_cap, _stop_event, _latest_frame, _capture_thread, threads,
                   call, ret>>

\* self._stop_event.set()
Stop129 ==
    /\ main.pc = "129"
    /\ _stop_event' = TRUE
    /\ main' = [main EXCEPT !.pc = "130"]
    /\ UNCHANGED <<_cap, _latest_frame, _capture_thread, threads, call, ret>>

\* self._capture_thread.join(timeout=2.0) returns: the worker has ended, or
\* it is still blocked in cap.read() when the two seconds are over
Stop130 ==
    /\ main.pc = "130"
    /\ \/ ~is_alive(threads[_capture_thread.ident])
       \/ threads[_capture_thread.ident].pc = "reading"
    /\ main' = [main EXCEPT !.pc = "132"]
    /\ UNCHANGED <<_cap, _stop_event, _latest_frame, _capture_thread, threads,
                   call, ret>>

\* if self._cap: self._cap.release()
\* self._cap = None
Stop132 ==
    /\ main.pc = "132"
    /\ _cap' = None
    /\ main' = [main EXCEPT !.pc = "136"]
    /\ UNCHANGED <<_stop_event, _latest_frame, _capture_thread, threads, call, ret>>

\* with self._frame_lock: self._latest_frame = None; stop_video_stream
\* returns, to its caller or into start_video_stream
Stop136 ==
    /\ main.pc = "136"
    /\ _latest_frame' = None
    /\ IF main.op = "stop_video_stream"
       THEN /\ main' = [main EXCEPT !.pc = "idle"]
            /\ call' = Call("stop_video_stream", <<>>)
            /\ ret' = Return(None)
       ELSE /\ main' = [main EXCEPT !.pc = "91"]
            /\ UNCHANGED <<call, ret>>
    /\ UNCHANGED <<_cap, _stop_event, _capture_thread, threads>>

\* cap = cv2.VideoCapture(index, ...); if not cap.isOpened(): return False
\* self._cap = cap, and the warm-up reads
Start91 ==
    \E isOpened \in BOOLEAN :
        /\ main.pc = "91"
        /\ IF isOpened
           THEN /\ _cap' = [capture |-> Len(threads) + 1]
                /\ main' = [main EXCEPT !.pc = "115"]
                /\ UNCHANGED <<call, ret>>
           ELSE /\ main' = [main EXCEPT !.pc = "idle"]
                /\ call' = Call("start_video_stream", <<>>)
                /\ ret' = Return(FALSE)
                /\ UNCHANGED _cap
        /\ UNCHANGED <<_stop_event, _latest_frame, _capture_thread, threads>>

\* self._stop_event.clear()
Start115 ==
    /\ main.pc = "115"
    /\ _stop_event' = FALSE
    /\ main' = [main EXCEPT !.pc = "116"]
    /\ UNCHANGED <<_cap, _latest_frame, _capture_thread, threads, call, ret>>

\* self._capture_thread = threading.Thread(...); self._capture_thread.start()
\* return True
Start116 ==
    /\ main.pc = "116"
    /\ threads' = Append(threads, [pc |-> "147"])
    /\ _capture_thread' = [ident |-> Len(threads) + 1]
    /\ main' = [main EXCEPT !.pc = "idle"]
    /\ call' = Call("start_video_stream", <<>>)
    /\ ret' = Return(TRUE)
    /\ UNCHANGED <<_cap, _stop_event, _latest_frame>>

\* while not self._stop_event.is_set():
Worker147 ==
    \E i \in 1..Len(threads) :
        /\ threads[i].pc = "147"
        /\ threads' = [threads EXCEPT ![i].pc = IF _stop_event THEN "exited" ELSE "148"]
        /\ UNCHANGED <<_cap, _stop_event, _latest_frame, _capture_thread, main,
                       call, ret>>

\* if self._cap is None: break
Worker148 ==
    \E i \in 1..Len(threads) :
        /\ threads[i].pc = "148"
        /\ threads' = [threads EXCEPT ![i].pc = IF IsNone(_cap) THEN "exited" ELSE "152"]
        /\ UNCHANGED <<_cap, _stop_event, _latest_frame, _capture_thread, main,
                       call, ret>>

\* self._cap.read is looked up and called; the call blocks
Worker152 ==
    \E i \in 1..Len(threads) :
        /\ threads[i].pc = "152"
        /\ threads' = [threads EXCEPT ![i].pc = IF IsNone(_cap) THEN "AttributeError"
                                                ELSE "reading"]
        /\ UNCHANGED <<_cap, _stop_event, _latest_frame, _capture_thread, main,
                       call, ret>>

\* ret, frame = ... : cap.read() returns, with a frame or without
\* (else: time.sleep(0.1))
WorkerRead ==
    \E i \in 1..Len(threads), read_ok \in BOOLEAN :
        /\ threads[i].pc = "reading"
        /\ threads' = [threads EXCEPT ![i].pc = IF read_ok THEN "159" ELSE "147"]
        /\ UNCHANGED <<_cap, _stop_event, _latest_frame, _capture_thread, main,
                       call, ret>>

\* with self._frame_lock: self._latest_frame = frame_rgb
Worker159 ==
    \E i \in 1..Len(threads) :
        /\ threads[i].pc = "159"
        /\ _latest_frame' = [frame_of |-> i]
        /\ threads' = [threads EXCEPT ![i].pc = "147"]
        /\ UNCHANGED <<_cap, _stop_event, _capture_thread, main, call, ret>>

\* get_latest_frame() and is_streaming()
get_latest_frame == _latest_frame
is_streaming == ~IsNone(_cap)

NextStream ==
    /\ \/ CallHardware
       \/ Stop128
       \/ Stop129
       \/ Stop130
       \/ Stop132
       \/ Stop136
       \/ Start91
       \/ Start115
       \/ Start116
       \/ Worker147
       \/ Worker148
       \/ Worker152
       \/ WorkerRead
       \/ Worker159
    /\ UNCHANGED <<wizard_vars, raw_captured_image, raw_rois, aligned_rois,
                   next_raw, next_gen, left_strip, right_strip>>

SpecStream == Init /\ [][NextStream]_vars

(***************************************************************************)
(* C29: once HardwareManager.stop_video_stream() has returned,             *)
(* get_latest_frame() returns None and is_streaming() is False until the   *)
(* next successful start_video_stream, under every interleaving of the     *)
(* capture worker thread (a worker still blocked in a camera read when the *)
(* 2-second join times out included); at most one capture worker is alive  *)
(* at any time and the worker never dereferences an absent capture object. *)
(***************************************************************************)
\* the last call into the HardwareManager has returned and left the stream
\* stopped
Stopped ==
    /\ main.pc = "idle"
    /\ \/ call.op = "stop_video_stream"
       \/ call.op = "start_video_stream" /\ ret = Return(FALSE)

StoppedIsQuiet == Stopped => (IsNone(get_latest_frame) /\ ~is_streaming)

OneWorker == Cardinality({i \in 1..Len(threads) : is_alive(threads[i])}) <= 1

NoAbsentCapture == \A i \in 1..Len(threads) : threads[i].pc # "AttributeError"

C29_StoppedStreamIsQuiet == StoppedIsQuiet /\ OneWorker /\ NoAbsentCapture

====
